---- MODULE Spec2Model ----
(***************************************************************************)
(* Import resolution and dependency-graph engine of shadcn-registry-builder *)
(* (scan -> classify imports -> index -> count incoming edges -> candidates *)
(* -> per-candidate transitive closure).                                    *)
(*                                                                          *)
(* Strings are sequences of one-character strings, so that slice,           *)
(* startsWith, endsWith, lastIndexOf and split are computed as the code     *)
(* computes them.  An optional field is a sequence of length 0 (undefined)  *)
(* or 1 (present).                                                          *)
(***************************************************************************)
EXTENDS Integers, Sequences, FiniteSets, TLC

VARIABLES
    disk,                 \* file path (root-relative) -> module specifiers of its import statements, in source order
    pathMappings,         \* ScanOptions.pathMappings: sequence of [alias, targets]
    pc,                   \* position of the run in main / the explorer loop
    nodes,                \* file nodes of the scanned tree, in collectFileNodes order
    contentFiles,         \* ScanOptions.contentFiles
    contentDependencyMap, \* ScanOptions.contentDependencyMap: path -> content paths
    fileIndex,            \* Map<string, FileNode> of buildFileIndex: key -> position in nodes
    candidates,           \* result of getComponentCandidates
    cand,                 \* candidatePath handed to summarizeComponent
    stack,                \* call stack of buildComponentSummary: frames [node, children, next]
    visited,              \* the visited set of the running closure computation
    summary,              \* the ComponentSummary being accumulated
    result,               \* the last ComponentSummaryResult (option)
    tasks,                \* the promises of a running scan: entry path -> [kind, state, entries, node]
    faults,               \* the file-system operations that fail: <<path, operation>>
    cli,                  \* the command line: the arguments, the path parsed, what main has loaded
    regFiles,             \* [info, old, last]: registry.info, registry.info.old (options), history
    regRuns               \* the createRegistryInfo calls: [at, items, previousInfo, before]

\* The state outside the pipeline proper: the promises of the scan, the faults of the
\* file system, the command line, and the registry.info files with their writers
envVars == <<tasks, faults, cli, regFiles, regRuns>>

vars == <<disk, pathMappings, pc, nodes, contentFiles, contentDependencyMap,
          fileIndex, candidates, cand, stack, visited, summary, result, envVars>>

(***************************************************************************)
(* Bounds of the model.                                                     *)
(***************************************************************************)
MaxFiles == 3
MaxImports == 2
MaxSpecLen == 3

(***************************************************************************)
(* String primitives (JavaScript String.prototype).                         *)
(***************************************************************************)
Max(S) == CHOOSE x \in S : \A y \in S : y <= x

Min(S) == CHOOSE x \in S : \A y \in S : x <= y

\* The least element of I, or the default d when I is empty
MinOr(I, d) == IF I = {} THEN d ELSE Min(I)

\* The greatest element of I, or the default d when I is empty
MaxOr(I, d) == IF I = {} THEN d ELSE Max(I)

\* s.slice(from0, to0) with 0-based, end-exclusive indices; empty when to0 <= from0
Slice(s, from0, to0) ==
    LET a == IF from0 < 0 THEN 0 ELSE from0
        b == IF to0 > Len(s) THEN Len(s) ELSE to0
    IN  IF b <= a THEN <<>> ELSE SubSeq(s, a + 1, b)

\* s.slice(from0)
SliceFrom(s, from0) == Slice(s, from0, Len(s))

StartsWith(s, p) == Len(p) <= Len(s) /\ SubSeq(s, 1, Len(p)) = p

EndsWith(s, q) == Len(q) <= Len(s) /\ SubSeq(s, Len(s) - Len(q) + 1, Len(s)) = q

\* s.indexOf(t), 0-based, -1 when absent
IndexOf(s, t) ==
    MinOr({i \in 0..(Len(s) - Len(t)) : SubSeq(s, i + 1, i + Len(t)) = t}, -1)

\* s.lastIndexOf(c) for a single character c, 0-based, -1 when absent
LastIndexOf(s, c) == MaxOr({i \in 0..(Len(s) - 1) : s[i + 1] = c}, -1)

Includes(s, t) == IndexOf(s, t) # -1

\* s.split(c) for a single character c
RECURSIVE Split(_, _)
Split(s, c) ==
    LET cut(i) == IF i = -1 THEN <<s>>
                  ELSE <<Slice(s, 0, i)>> \o Split(SliceFrom(s, i + 1), c)
    IN  cut(IndexOf(s, <<c>>))

\* segs.join(sep), sep a string
RECURSIVE Join(_, _)
Join(segs, sep) ==
    IF Len(segs) = 0 THEN <<>>
    ELSE IF Len(segs) = 1 THEN segs[1]
    ELSE segs[1] \o sep \o Join(Tail(segs), sep)

\* s.replace(/\*/g, by)
ReplaceAllStars(s, by) == Join(Split(s, "*"), by)

\* s.replace(c, by): the first occurrence only
ReplaceFirst(s, c, by) ==
    LET at(i) == IF i = -1 THEN s ELSE Slice(s, 0, i) \o by \o SliceFrom(s, i + 1)
    IN  at(IndexOf(s, <<c>>))

\* s.replace(/^\/+/g, "")
RECURSIVE StripLeadingSlashes(_)
StripLeadingSlashes(s) ==
    IF Len(s) > 0 /\ s[1] = "/" THEN StripLeadingSlashes(Tail(s)) ELSE s

\* The characters of the model in the order of String.prototype.localeCompare
\* (root collation: punctuation, then digits, then letters).
Collation ==
    <<"-", ".", "@", "*", "/", "0", "1", "2", "3", "4", "5", "6", "7", "8", "9",
      "a", "A", "b", "B", "c", "C", "d", "D", "e", "E", "f", "F", "g", "G", "h", "H",
      "i", "I", "j", "J", "k", "K", "l", "L", "m", "M", "n", "N", "o", "O", "p", "P",
      "q", "Q", "r", "R", "s", "S", "t", "T", "u", "U", "v", "V", "w", "W", "x", "X",
      "y", "Y", "z", "Z">>

CharRank(c) == CHOOSE i \in 1..Len(Collation) : Collation[i] = c

\* a.localeCompare(b) < 0
RECURSIVE LocaleLess(_, _)
LocaleLess(a, b) ==
    IF Len(b) = 0 THEN FALSE
    ELSE IF Len(a) = 0 THEN TRUE
    ELSE IF a[1] = b[1] THEN LocaleLess(Tail(a), Tail(b))
    ELSE CharRank(a[1]) < CharRank(b[1])

\* Array.from(values).sort((a, b) => a.localeCompare(b)) of a set of strings
RECURSIVE SortStrings(_)
SortStrings(S) ==
    IF S = {} THEN <<>>
    ELSE LET from(m) == <<m>> \o SortStrings(S \ {m})
         IN  from(CHOOSE x \in S : \A y \in S \ {x} : LocaleLess(x, y))

Range(f) == {f[i] : i \in DOMAIN f}

(***************************************************************************)
(* node:path (POSIX).                                                       *)
(***************************************************************************)
\* normalizeString of node:path: resolves "." and ".." and drops empty segments
RECURSIVE NormalizeSegments(_, _)
NormalizeSegments(segs, acc) ==
    IF Len(segs) = 0 THEN acc
    ELSE LET h == Head(segs)
         IN  IF h = <<>> \/ h = <<".">> THEN NormalizeSegments(Tail(segs), acc)
             ELSE IF h = <<".", ".">>
                  THEN NormalizeSegments(Tail(segs),
                           IF Len(acc) = 0 THEN acc ELSE SubSeq(acc, 1, Len(acc) - 1))
             ELSE NormalizeSegments(Tail(segs), Append(acc, h))

\* The segments of the absolute path path.resolve(base, p), base absolute
ResolveSegments(base, p) ==
    IF StartsWith(p, <<"/">>) THEN NormalizeSegments(Split(p, "/"), <<>>)
    ELSE NormalizeSegments(Split(base, "/") \o Split(p, "/"), <<>>)

\* path.resolve(base, p)
PathResolve(base, p) == <<"/">> \o Join(ResolveSegments(base, p), <<"/">>)

\* path.join(a, b)
PathJoin(a, b) ==
    LET joined(segs) == IF StartsWith(a, <<"/">>) THEN <<"/">> \o Join(segs, <<"/">>)
                        ELSE IF Len(segs) = 0 THEN <<".">> ELSE Join(segs, <<"/">>)
    IN  joined(NormalizeSegments(Split(a \o <<"/">> \o b, "/"), <<>>))

\* Length of the longest common prefix of two segment lists
RECURSIVE CommonPrefix(_, _)
CommonPrefix(a, b) ==
    IF Len(a) = 0 \/ Len(b) = 0 \/ a[1] # b[1] THEN 0
    ELSE 1 + CommonPrefix(Tail(a), Tail(b))

\* The relative path between two segment lists that share their first k segments
RelativeSegments(f, t, k) ==
    Join([i \in 1..(Len(f) - k) |-> <<".", ".">>] \o SubSeq(t, k + 1, Len(t)), <<"/">>)

\* path.relative(from, to), both resolved against the file system root first
PathRelative(from, to) ==
    LET between(f, t) == RelativeSegments(f, t, CommonPrefix(f, t))
    IN  between(ResolveSegments(<<"/">>, from), ResolveSegments(<<"/">>, to))

\* path.dirname(p)
PathDirname(p) ==
    LET upTo(i) == IF i = -1 THEN <<".">>
                   ELSE IF i = 0 THEN <<"/">>
                   ELSE Slice(p, 0, i)
    IN  upTo(LastIndexOf(p, "/"))

\* path.basename(p)
PathBasename(p) == SliceFrom(p, LastIndexOf(p, "/") + 1)

\* path.extname(p): from the last "." of the basename, "" when that "." is its
\* first character or there is none
PathExtname(p) ==
    LET ext(b, i) == IF i <= 0 THEN <<>> ELSE SliceFrom(b, i)
        of(b) == ext(b, LastIndexOf(b, "."))
    IN  of(PathBasename(p))

(***************************************************************************)
(* Configuration consumed by the scan (main: target, packageRoot, the       *)
(* nearest package.json, shadcn-registry-builder.json).                     *)
(***************************************************************************)
\* target of main: the resolved directory to scan
RootPath == <<"/", "r", "o", "o", "t">>

\* packageRoot of main: the directory of the nearest package.json
PackageRoot == <<"/", "r", "o", "o", "t">>

LeftPad == <<"l", "e", "f", "t", "-", "p", "a", "d">>

ScopedPackage == <<"@", "s", "/", "p">>

\* A dependency declared with the empty version range ("" is the range "*")
AnyVersionPackage == <<"e">>

Tsx == <<"t", "s", "x">>

\* PackageInfo of the nearest package.json: name -> version range; left-pad is in
\* both maps
PackageDependencies ==
    [n \in {LeftPad, ScopedPackage, AnyVersionPackage} |->
        IF n = LeftPad THEN <<"1", ".", "0", ".", "0">>
        ELSE IF n = ScopedPackage THEN <<"2">>
        ELSE <<>>]

PackageDevDependencies ==
    [n \in {Tsx, LeftPad} |-> IF n = Tsx THEN <<"5">> ELSE <<"0", ".", "9">>]

\* PackageReference.type of a manifest match
DependencyType == <<"d", "e", "p", "e", "n", "d", "e", "n", "c", "y">>

DevDependencyType == <<"d", "e", "v", "D", "e", "p", "e", "n", "d", "e", "n", "c", "y">>

\* DEFAULT_SKIP_DIRECTORIES
SkipDirectories ==
    {<<"n", "o", "d", "e", "_", "m", "o", "d", "u", "l", "e", "s">>, <<".", "g", "i", "t">>,
     <<"d", "i", "s", "t">>, <<".", "d", "i", "s", "t">>}

\* DEFAULT_ALLOWED_EXTENSIONS
AllowedExtensions ==
    {<<".", "j", "s">>, <<".", "j", "s", "x">>, <<".", "t", "s">>, <<".", "t", "s", "x">>}

\* NormalizedConfig.knownRegistries
KnownRegistries ==
    << [normalizedPrefix |-> <<"u", "i", "/">>, type |-> <<"@", "s", "h", "a", "d", "c", "n", "/", "u", "i">>],
       [normalizedPrefix |-> <<"u", "i", "/", "f", "/">>, type |-> <<"@", "a", "c", "m", "e">>],
       [normalizedPrefix |-> <<"b", "/">>, type |-> <<"@", "a", "c", "m", "e">>],
       [normalizedPrefix |-> <<"c", "/">>, type |-> <<"@", "a", "c", "m", "e", "/", "u", "i">>] >>

(***************************************************************************)
(* scanner/import-parser.ts: the import classifier.                         *)
(***************************************************************************)
isRelativeModule(moduleSpecifier) ==
    StartsWith(moduleSpecifier, <<".", "/">>) \/ StartsWith(moduleSpecifier, <<".", ".", "/">>)

\* getPackageName: option; the first segment, or the first two of a scoped name
getPackageName(moduleName) ==
    IF Len(moduleName) = 0 THEN <<>>
    ELSE LET named(segments) ==
                 IF moduleName[1] = "@"
                 THEN IF Len(segments) >= 2
                      THEN << segments[1] \o <<"/">> \o segments[2] >>
                      ELSE <<>>
                 ELSE IF Len(segments[1]) = 0 THEN <<>> ELSE <<segments[1]>>
         IN  named(Split(moduleName, "/"))

\* resolvePackageMatch: [dependency, devDependency], each an option
resolvePackageMatch(moduleName) ==
    LET none == [dependency |-> <<>>, devDependency |-> <<>>]
        matched(pkg) ==
            IF Len(pkg) = 0 THEN none
            ELSE IF pkg[1] \in DOMAIN PackageDependencies /\ Len(PackageDependencies[pkg[1]]) > 0
                 THEN [dependency |-> << [name |-> pkg[1],
                                          version |-> <<PackageDependencies[pkg[1]]>>,
                                          type |-> DependencyType] >>,
                       devDependency |-> <<>>]
            ELSE IF pkg[1] \in DOMAIN PackageDevDependencies /\ Len(PackageDevDependencies[pkg[1]]) > 0
                 THEN [dependency |-> <<>>,
                       devDependency |-> << [name |-> pkg[1],
                                             version |-> <<PackageDevDependencies[pkg[1]]>>,
                                             type |-> DevDependencyType] >>]
            ELSE none
    IN  matched(getPackageName(moduleName))

\* matchAlias: option; <<>> is null, <<m>> the captured string m (possibly "")
matchAlias(moduleName, alias) ==
    IF ~Includes(alias, <<"*">>)
    THEN IF moduleName = alias THEN << <<>> >> ELSE <<>>
    ELSE LET captured(prefix, suffix) ==
                 IF ~StartsWith(moduleName, prefix) THEN <<>>
                 ELSE IF Len(suffix) > 0 /\ ~EndsWith(moduleName, suffix) THEN <<>>
                 ELSE << Slice(moduleName, Len(prefix), Len(moduleName) - Len(suffix)) >>
             around(parts) == captured(parts[1], parts[2])
         IN  around(Split(alias, "*"))

\* The body of the loop of resolvePathAlias for one mapping that matched with `match`
aliasPaths(mapping, match) ==
    [i \in 1..Len(mapping.targets) |->
        LET target == mapping.targets[i]
            resolved == IF Includes(target, <<"*">>) THEN ReplaceAllStars(target, match)
                        ELSE target
        IN  PathRelative(PackageRoot, resolved)]

\* `if (!match) continue`: null and the empty string are both falsy
matchIsFalsy(match) == Len(match) = 0 \/ Len(match[1]) = 0

\* resolvePathAlias: option [alias, paths]; the first mapping whose match is truthy
RECURSIVE resolvePathAlias(_, _)
resolvePathAlias(moduleName, mappings) ==
    IF Len(mappings) = 0 THEN <<>>
    ELSE LET tried(mapping, match) ==
                 IF matchIsFalsy(match) THEN resolvePathAlias(moduleName, Tail(mappings))
                 ELSE << [alias |-> mapping.alias, paths |-> aliasPaths(mapping, match[1])] >>
         IN  tried(Head(mappings), matchAlias(moduleName, Head(mappings).alias))

\* normalizeRelativePath
normalizeRelativePath(value) ==
    StripLeadingSlashes(IF StartsWith(value, <<".", "/">>) THEN SliceFrom(value, 2) ELSE value)

\* The inner loop of findRegistryDependency: the first registry that qualifies
RECURSIVE firstRegistry(_, _)
firstRegistry(normalizedPath, registries) ==
    IF Len(registries) = 0 THEN <<>>
    ELSE LET tried(registry, remainder) ==
                 IF ~StartsWith(normalizedPath, registry.normalizedPrefix) \/ Len(remainder) = 0
                 THEN firstRegistry(normalizedPath, Tail(registries))
                 ELSE << [name |-> StripLeadingSlashes(remainder),
                          version |-> <<>>,
                          type |-> registry.type] >>
         IN  tried(Head(registries),
                   SliceFrom(normalizedPath, Len(Head(registries).normalizedPrefix)))

\* A findRegistryDependency that tries the resolved paths from the last to the first
RECURSIVE lastPathRegistry(_, _)
lastPathRegistry(resolvedPaths, knownRegistries) ==
    IF Len(knownRegistries) = 0 \/ Len(resolvedPaths) = 0 THEN <<>>
    ELSE LET orPrevious(hit) ==
                 IF Len(hit) > 0 THEN hit
                 ELSE lastPathRegistry(SubSeq(resolvedPaths, 1, Len(resolvedPaths) - 1),
                                       knownRegistries)
         IN  orPrevious(firstRegistry(normalizeRelativePath(resolvedPaths[Len(resolvedPaths)]),
                                      knownRegistries))

\* findRegistryDependency: option PackageReference
RECURSIVE findRegistryDependency(_, _)
findRegistryDependency(resolvedPaths, knownRegistries) ==
    IF Len(knownRegistries) = 0 \/ Len(resolvedPaths) = 0 THEN <<>>
    ELSE LET orNext(hit) == IF Len(hit) > 0 THEN hit
                            ELSE findRegistryDependency(Tail(resolvedPaths), knownRegistries)
         IN  orNext(firstRegistry(normalizeRelativePath(Head(resolvedPaths)), knownRegistries))

\* The ImportEntry extractImports pushes for one import statement with a literal
\* module specifier (line and statement text are not modelled)
importEntry(moduleName, mappings) ==
    LET entry(depInfo, aliasInfo, paths) ==
            [moduleSpecifier |-> moduleName,
             fileDependency |-> IF isRelativeModule(moduleName) THEN <<moduleName>> ELSE <<>>,
             dependency |-> depInfo.dependency,
             devDependency |-> depInfo.devDependency,
             pathAlias |-> IF Len(aliasInfo) = 0 THEN <<>> ELSE <<aliasInfo[1].alias>>,
             resolvedPaths |-> paths,
             registryDependency |-> IF Len(paths) > 0
                                    THEN findRegistryDependency(paths, KnownRegistries)
                                    ELSE <<>>]
        aliased(aliasInfo) ==
            entry(resolvePackageMatch(moduleName), aliasInfo,
                  IF Len(aliasInfo) = 0 THEN <<>> ELSE aliasInfo[1].paths)
    IN  aliased(resolvePathAlias(moduleName, mappings))

\* extractImports: one entry per import statement, in source order
extractImports(specifiers, mappings) ==
    [i \in 1..Len(specifiers) |-> importEntry(specifiers[i], mappings)]

(***************************************************************************)
(* scanner.ts: scanDirectory / inspectFile.                                 *)
(***************************************************************************)
\* meta.importCount of a node the annotation pass has not written yet (undefined)
NoCount == -1

\* relativePath(targetPath, rootPath) of scanner.ts
relativePath(targetPath, rootPath) ==
    LET orDot(rel) == IF rel = <<>> THEN <<".">> ELSE rel
    IN  orDot(PathRelative(rootPath, targetPath))

\* String.prototype.toLowerCase on the letters A-Z
ToLowerCase(s) ==
    LET upper == <<"A", "B", "C", "D", "E", "F", "G", "H", "I", "J", "K", "L", "M",
                   "N", "O", "P", "Q", "R", "S", "T", "U", "V", "W", "X", "Y", "Z">>
        lower == <<"a", "b", "c", "d", "e", "f", "g", "h", "i", "j", "k", "l", "m",
                   "n", "o", "p", "q", "r", "s", "t", "u", "v", "w", "x", "y", "z">>
        low(c) == IF \E k \in 1..26 : upper[k] = c
                  THEN lower[CHOOSE k \in 1..26 : upper[k] = c]
                  ELSE c
    IN  [i \in 1..Len(s) |-> low(s[i])]

\* A skip test on the name as it is spelled on disk
skipsDirectoryAsSpelled(name) == name \in SkipDirectories

\* config.skipDirectories.has(entry.name.toLowerCase())
skipsDirectory(name) == ToLowerCase(name) \in SkipDirectories

\* Whether scanDirectory reaches the entry: no directory on the way is in the skip-set
reachedByScan(p) ==
    LET visible(segs) == \A i \in 1..(Len(segs) - 1) : ~skipsDirectory(segs[i])
    IN  visible(Split(p, "/"))

\* inspectFile: option; null for an extension outside the allow-set
inspectFile(p, text, mappings) ==
    IF ToLowerCase(PathExtname(p)) \notin AllowedExtensions THEN <<>>
    ELSE << [path |-> relativePath(PathJoin(RootPath, p), RootPath),
             imports |-> extractImports(text, mappings),
             importCount |-> NoCount] >>

\* Order of two distinct entries in the walk of the tree: children are sorted by
\* name in every directory, so two paths compare by their first differing segment
walkLess(p, q) ==
    LET before(sp, sq, k) == IF k >= Len(sp) THEN k < Len(sq)
                             ELSE IF k >= Len(sq) THEN FALSE
                             ELSE LocaleLess(sp[k + 1], sq[k + 1])
        segments(sp, sq) == before(sp, sq, CommonPrefix(sp, sq))
    IN  segments(Split(p, "/"), Split(q, "/"))

RECURSIVE walkOrder(_)
walkOrder(S) ==
    IF S = {} THEN <<>>
    ELSE LET from(m) == <<m>> \o walkOrder(S \ {m})
         IN  from(CHOOSE x \in S : \A y \in S \ {x} : walkLess(x, y))

\* collectFileNodes(scanDirectory(target, ...)): the file nodes of the tree in walk
\* order; an entry inspectFile returns null for leaves no node
scanDirectory(files, mappings) ==
    LET inspected(order) ==
            [i \in 1..Len(order) |-> inspectFile(order[i], files[order[i]], mappings)]
        kept(results) == SelectSeq(results, LAMBDA r : Len(r) > 0)
        unwrapped(results) == [i \in 1..Len(results) |-> results[i][1]]
    IN  unwrapped(kept(inspected(walkOrder({p \in DOMAIN files : reachedByScan(p)}))))

(***************************************************************************)
(* scanner/file-graph (second half of content-files.ts): the file index,    *)
(* edge resolution and the import-count annotation.                         *)
(***************************************************************************)
normalizeLookupPath(value) ==
    StripLeadingSlashes(IF StartsWith(value, <<".", "/">>) THEN SliceFrom(value, 2) ELSE value)

stripExtension(value) ==
    LET upTo(lastDot) == IF lastDot <= 0 THEN value ELSE Slice(value, 0, lastDot)
    IN  upTo(LastIndexOf(value, "."))

\* A lookup that keeps a trailing /index (the test of line 355 never true)
keepIndex(value) == value

\* if (value.endsWith("/index")) return value.slice(0, -"/index".length)
stripIndex(value) ==
    IF EndsWith(value, <<"/", "i", "n", "d", "e", "x">>)
    THEN Slice(value, 0, Len(value) - 6)
    ELSE value

\* map.set(key, value) on a Map modelled as a function
MapSet(map, key, value) ==
    [k \in DOMAIN map \cup {key} |-> IF k = key THEN value ELSE map[k]]

EmptyMap == [k \in {} |-> 0]

\* registerPathVariants; file is the position of the node
registerPathVariants(map, normalizedPath, file) ==
    LET third(m2, withoutExt, withoutIndex) ==
            IF Len(withoutIndex) > 0 /\ withoutIndex # withoutExt
            THEN MapSet(m2, withoutIndex, file)
            ELSE m2
        second(m1, withoutExt) ==
            third(IF withoutExt # normalizedPath THEN MapSet(m1, withoutExt, file) ELSE m1,
                  withoutExt, stripIndex(withoutExt))
    IN  second(MapSet(map, normalizedPath, file), stripExtension(normalizedPath))

\* buildFileLookup: the nodes registered in order, a later set overwriting an earlier
RECURSIVE registerFrom(_, _, _)
registerFrom(map, files, i) ==
    IF i > Len(files) THEN map
    ELSE registerFrom(registerPathVariants(map, normalizeLookupPath(files[i].path), i),
                      files, i + 1)

buildFileLookup(files) == registerFrom(EmptyMap, files, 1)

\* findFileNodeByRelativePath: option; the position of the node found
findFileNodeByRelativePath(lookup, relPath) ==
    LET get(key) == IF key \in DOMAIN lookup THEN <<lookup[key]>> ELSE <<>>
        orElse(found, key) == IF Len(found) > 0 THEN found ELSE get(key)
        find(normalized) ==
            orElse(orElse(get(normalized), stripExtension(normalized)), stripIndex(normalized))
    IN  find(normalizeLookupPath(relPath))

\* resolveImportTargets: the Set of target strings of one entry
resolveImportTargets(file, entry) ==
    {PathRelative(RootPath, PathResolve(PackageRoot, entry.resolvedPaths[i])) :
        i \in 1..Len(entry.resolvedPaths)}
    \cup
    (IF Len(entry.moduleSpecifier) > 0 /\ isRelativeModule(entry.moduleSpecifier)
     THEN {PathRelative(RootPath,
              PathResolve(PathDirname(PathResolve(RootPath, file.path)), entry.moduleSpecifier))}
     ELSE {})

\* The nodes one entry increments, one per target string that resolves
entryHits(lookup, file, entry) ==
    LET looked(targets) ==
            [i \in 1..Len(targets) |-> findFileNodeByRelativePath(lookup, targets[i])]
        found(results) == SelectSeq(results, LAMBDA r : Len(r) > 0)
        unwrapped(results) == [i \in 1..Len(results) |-> results[i][1]]
    IN  unwrapped(found(looked(SortStrings(resolveImportTargets(file, entry)))))

RECURSIVE fileHits(_, _, _)
fileHits(lookup, file, j) ==
    IF j > Len(file.imports) THEN <<>>
    ELSE entryHits(lookup, file, file.imports[j]) \o fileHits(lookup, file, j + 1)

RECURSIVE allHits(_, _, _)
allHits(lookup, files, i) ==
    IF i > Len(files) THEN <<>>
    ELSE fileHits(lookup, files[i], 1) \o allHits(lookup, files, i + 1)

\* targetNode.meta.importCount = (targetNode.meta.importCount ?? 0) + 1, hit by hit
RECURSIVE countHits(_, _)
countHits(counts, hits) ==
    IF Len(hits) = 0 THEN counts
    ELSE countHits([counts EXCEPT ![Head(hits)] = (IF @ = NoCount THEN 0 ELSE @) + 1],
                   Tail(hits))

\* The first loop of annotateImportCounts: file.meta.importCount = 0
resetCounts(files) == [i \in 1..Len(files) |-> 0]

\* annotateImportCounts: the nodes with their importCount rewritten
annotateImportCounts(files) ==
    LET written(counts) == [i \in 1..Len(files) |-> [files[i] EXCEPT !.importCount = counts[i]]]
        counted(lookup) == written(countHits(resetCounts(files), allHits(lookup, files, 1)))
    IN  counted(buildFileLookup(files))

\* The paths of a list of nodes (.map((file) => file.path))
pathsOf(files) == [i \in 1..Len(files) |-> files[i].path]

\* getComponentCandidates
getComponentCandidates(files) ==
    pathsOf(SelectSeq(files,
                      LAMBDA f : (IF f.importCount = NoCount THEN 0 ELSE f.importCount) = 0))

(***************************************************************************)
(* scanner/content-files.ts: the content-dependency heuristic.              *)
(***************************************************************************)
ContentSuffixes ==
    {<<".", "c", "o", "n", "t", "e", "n", "t">> \o e : e \in AllowedExtensions}

\* CONTENT_FILE_PATTERN.test(filePath)
isContentFilePath(filePath) == \E q \in ContentSuffixes : EndsWith(filePath, q)

\* extractBasePath: the path with the content suffix removed
extractBasePath(relPath) ==
    IF isContentFilePath(relPath)
    THEN LET q == CHOOSE x \in ContentSuffixes : EndsWith(relPath, x)
         IN  Slice(relPath, 0, Len(relPath) - Len(q))
    ELSE relPath

\* The ContentFileInfo recordContentFile pushes
contentFileInfo(filePath) ==
    LET info(rel, dir) == [path |-> rel,
                           basePath |-> extractBasePath(rel),
                           directory |-> IF dir = <<>> THEN <<".">> ELSE dir]
        of(rel) == info(rel, PathDirname(rel))
    IN  of(PathRelative(RootPath, filePath))

ensureTrailingSlash(value) == IF EndsWith(value, <<"/">>) THEN value ELSE value \o <<"/">>

\* buildBaseLookup(fileNodes).get(base): the nodes whose extension-stripped path is base
baseMatches(files, base) ==
    SelectSeq([i \in 1..Len(files) |-> i], LAMBDA i : stripExtension(files[i].path) = base)

\* buildDescendantPrefixes
buildDescendantPrefixes(content) ==
    (IF Len(content.basePath) > 0 /\ content.basePath # <<".">>
     THEN {ensureTrailingSlash(content.basePath)}
          \cup (IF EndsWith(content.basePath, <<"/", "i", "n", "d", "e", "x">>)
                THEN {ensureTrailingSlash(Slice(content.basePath, 0, Len(content.basePath) - 6))}
                ELSE {})
     ELSE {})
    \cup
    (IF Len(content.directory) > 0 /\ content.directory # <<".">>
     THEN {ensureTrailingSlash(content.directory)}
     ELSE {<<>>})

\* A test that takes every path under the prefix, whatever its depth
prefixCovers(nodePath, prefix) == StartsWith(nodePath, prefix)

\* The test of findZeroImportTargets for one node and one prefix
prefixMatches(nodePath, prefix) ==
    IF prefix = <<>> THEN Includes(nodePath, <<"/">>)
    ELSE /\ StartsWith(nodePath, prefix)
         /\ Len(nodePath) > Len(prefix)
         /\ Includes(SliceFrom(nodePath, Len(prefix)), <<"/">>)

\* findZeroImportTargets: positions of the zero-import nodes matched, in order
findZeroImportTargets(files, content) ==
    LET matching(prefixes) ==
            SelectSeq([i \in 1..Len(files) |-> i],
                      LAMBDA i : /\ (IF files[i].importCount = NoCount THEN 0
                                     ELSE files[i].importCount) = 0
                                 /\ \E prefix \in prefixes : prefixMatches(files[i].path, prefix))
    IN  matching(buildDescendantPrefixes(content))

\* addDependency
addDependency(map, filePath, contentPath) ==
    IF filePath \in DOMAIN map
    THEN IF contentPath \in Range(map[filePath]) THEN map
         ELSE MapSet(map, filePath, Append(map[filePath], contentPath))
    ELSE MapSet(map, filePath, <<contentPath>>)

RECURSIVE addDependencies(_, _, _, _)
addDependencies(map, files, positions, contentPath) ==
    IF Len(positions) = 0 THEN map
    ELSE addDependencies(addDependency(map, files[Head(positions)].path, contentPath),
                         files, Tail(positions), contentPath)

\* The first loop of attachContentDependencies: exact siblings
RECURSIVE attachMatched(_, _, _)
attachMatched(map, files, contents) ==
    IF Len(contents) = 0 THEN map
    ELSE attachMatched(addDependencies(map, files,
                                       baseMatches(files, Head(contents).basePath),
                                       Head(contents).path),
                       files, Tail(contents))

\* The second loop: the zero-import fallback for the unmatched content files
RECURSIVE attachUnmatched(_, _, _)
attachUnmatched(map, files, unmatched) ==
    IF Len(unmatched) = 0 THEN map
    ELSE attachUnmatched(addDependencies(map, files,
                                         findZeroImportTargets(files, Head(unmatched)),
                                         Head(unmatched).path),
                         files, Tail(unmatched))

\* A first loop that hands every content file to the fallback
allContents(files, contents) == contents

\* The list `unmatched` the first loop fills: the content files without a match
unmatchedContents(files, contents) ==
    SelectSeq(contents, LAMBDA c : Len(baseMatches(files, c.basePath)) = 0)

\* attachContentDependencies: the value of options.contentDependencyMap
attachContentDependencies(files, contents) ==
    attachUnmatched(attachMatched(EmptyMap, files, contents), files,
                    unmatchedContents(files, contents))

(***************************************************************************)
(* component-summary.ts: the transitive closure of a candidate.             *)
(***************************************************************************)
SrcMarker == <<"/", "s", "r", "c", "/">>

formatFileDependencyPath(absolutePath, rootPath) ==
    LET orDot(relative) == IF relative = <<>> THEN <<".">> ELSE relative
        from(markerIndex) ==
            IF markerIndex # -1 THEN <<".">> \o SliceFrom(absolutePath, markerIndex)
            ELSE orDot(PathRelative(rootPath, absolutePath))
    IN  from(IndexOf(absolutePath, SrcMarker))

ShadcnUi == <<"@", "s", "h", "a", "d", "c", "n", "/", "u", "i">>

CountChar(s, c) == Cardinality({i \in 1..Len(s) : s[i] = c})

\* A formatPackageRef that appends the version range of a manifest match
\* (`${ref.name}@${ref.version}`)
formatPackageRefVersioned(ref, key) ==
    IF key = "registryDependency" \/ Len(ref.version) = 0 THEN ref.name
    ELSE ref.name \o <<"@">> \o ref.version[1]

\* A formatPackageRef that keeps every segment of a registry name, joined by hyphens
formatPackageRefJoined(ref, key) ==
    IF key = "registryDependency"
    THEN LET joined(name) == [i \in 1..Len(name) |-> IF name[i] = "/" THEN "-" ELSE name[i]]
         IN  IF ref.type = ShadcnUi THEN joined(ref.name)
             ELSE ref.type \o <<"/">> \o joined(ref.name)
    ELSE ref.name

\* formatPackageRef
formatPackageRef(ref, key) ==
    IF key = "registryDependency"
    THEN LET dashed(res) == IF CountChar(res, "/") > 1 THEN ReplaceFirst(res, "/", <<"-">>)
                            ELSE res
             typed(name) == dashed(IF ref.type = ShadcnUi THEN name
                                   ELSE ref.type \o <<"/">> \o name)
         IN  typed(IF Includes(ref.name, <<"/">>)
                   THEN SliceFrom(ref.name, LastIndexOf(ref.name, "/") + 1)
                   ELSE ref.name)
    ELSE ref.name

\* collectPackageReferences: the display strings of the entries that carry `key`
collectPackageReferences(file, key) ==
    {formatPackageRef(file.imports[j][key][1], key) :
        j \in {k \in 1..Len(file.imports) : Len(file.imports[k][key]) > 0}}

\* createContentDependencyNode
createContentDependencyNode(relPath) ==
    [path |-> relPath, imports |-> <<>>, importCount |-> 0]

\* collectFileDependencies: the children of a node, sorted by path
collectFileDependencies(file, files, index, contentMap) ==
    LET targets == UNION {resolveImportTargets(file, file.imports[j]) : j \in 1..Len(file.imports)}
        contentDeps == IF file.path \in DOMAIN contentMap THEN Range(contentMap[file.path]) ELSE {}
        ordered(all, order) == [i \in 1..Len(order) |-> CHOOSE n \in all : n.path = order[i]]
        sorted(all) == ordered(all, SortStrings({n.path : n \in all}))
        withContent(imported) ==
            sorted(imported \cup {createContentDependencyNode(c) :
                                     c \in {d \in contentDeps : \A n \in imported : n.path # d}})
        resolved(found) == withContent({files[r[1]] : r \in {q \in found : Len(q) > 0}})
    IN  resolved({findFileNodeByRelativePath(index, t) : t \in targets})

\* The three Sets of a fresh ComponentSummary
EmptySummary == [dependencies |-> {}, registryDependencies |-> {}, fileDependencies |-> {}]

\* Lines 120-128 of buildComponentSummary: the package references of the node entered
withPackageReferences(sum, node) ==
    [sum EXCEPT
        !.dependencies = @ \cup collectPackageReferences(node, "dependency")
                           \cup collectPackageReferences(node, "devDependency"),
        !.registryDependencies = @ \cup collectPackageReferences(node, "registryDependency")]

\* The display path buildComponentSummary adds for a child
displayPath(nodePath) == formatFileDependencyPath(PathResolve(RootPath, nodePath), RootPath)

\* buildFileEntries for one item
fileEntry(item) ==
    LET content == EndsWith(item, <<".", "c", "o", "n", "t", "e", "n", "t", ".", "t", "s">>)
                   \/ EndsWith(item, <<".", "c", "o", "n", "t", "e", "n", "t", ".", "j", "s">>)
        entry(target, extension) ==
            [path |-> item,
             type |-> IF extension = <<".", "t", "s", "x">> \/ extension = <<".", "j", "s", "x">>
                      THEN (IF content THEN "registry:file" ELSE "registry:component")
                      ELSE IF extension = <<".", "t", "s">> \/ extension = <<".", "j", "s">>
                      THEN (IF content THEN "registry:file" ELSE "registry:lib")
                      ELSE "registry:file",
             target |-> target]
        to(target) == entry(target, PathExtname(target))
    IN  to(IF StartsWith(item, <<".">>) THEN ReplaceFirst(item, ".", <<"~">>) ELSE item)

\* buildFileEntries
buildFileEntries(items) == [i \in 1..Len(items) |-> fileEntry(items[i])]

\* Lines 56-71 of summarizeComponent: the result built from the finished summary
summaryResult(candidatePath, node, sum) ==
    LET built(componentPath, fileDependencies) ==
            [candidatePath |-> candidatePath,
             node |-> node.path,
             componentPath |-> componentPath,
             dependencies |-> SortStrings(sum.dependencies),
             registryDependencies |-> SortStrings(sum.registryDependencies),
             fileDependencies |-> fileDependencies,
             files |-> buildFileEntries(fileDependencies)]
        forPath(componentPath) ==
            built(componentPath, SortStrings({componentPath} \cup sum.fileDependencies))
    IN  forPath(formatFileDependencyPath(PathJoin(RootPath, candidatePath), RootPath))

(***************************************************************************)
(* The run: main (scan, annotate, attach, index, candidates) and then the   *)
(* closure of a selected path, buildComponentSummary taken call by call.    *)
(***************************************************************************)
\* const result = await scanDirectory(target, target, config, scanOptions)
Scan ==
    /\ pc = "start"
    /\ nodes' = scanDirectory(disk, pathMappings)
    /\ pc' = "scanned"
    /\ UNCHANGED <<envVars, disk, pathMappings, contentFiles, contentDependencyMap, fileIndex,
                   candidates, cand, stack, visited, summary, result>>

\* recordContentFile(filePath, rootPath, options), called by a user of the module for
\* a content file of the tree (no code of the repository calls it)
RecordContentFile ==
    /\ pc = "scanned"
    /\ \E i \in 1..Len(nodes) :
        /\ isContentFilePath(nodes[i].path)
        /\ \E info \in {contentFileInfo(PathJoin(RootPath, nodes[i].path))} :
            /\ info \notin Range(contentFiles)
            /\ contentFiles' = Append(contentFiles, info)
    /\ UNCHANGED <<envVars, disk, pathMappings, pc, nodes, contentDependencyMap, fileIndex,
                   candidates, cand, stack, visited, summary, result>>

\* annotateImportCounts(result, target, scanOptions); a second pass over the same
\* tree starts from the counts the first one left
Annotate ==
    /\ pc \in {"scanned", "annotated"}
    /\ nodes' = annotateImportCounts(nodes)
    /\ pc' = "annotated"
    /\ UNCHANGED <<envVars, disk, pathMappings, contentFiles, contentDependencyMap, fileIndex,
                   candidates, cand, stack, visited, summary, result>>

\* attachContentDependencies(result, scanOptions)
Attach ==
    /\ pc = "annotated"
    /\ contentDependencyMap' = attachContentDependencies(nodes, contentFiles)
    /\ pc' = "attached"
    /\ UNCHANGED <<envVars, disk, pathMappings, nodes, contentFiles, fileIndex,
                   candidates, cand, stack, visited, summary, result>>

\* const fileIndex = buildFileIndex(result);
\* const componentCandidates = getComponentCandidates(result)
Index ==
    /\ pc = "attached"
    /\ fileIndex' = buildFileLookup(nodes)
    /\ candidates' = getComponentCandidates(nodes)
    /\ pc' = "ready"
    /\ UNCHANGED <<envVars, disk, pathMappings, nodes, contentFiles, contentDependencyMap,
                   cand, stack, visited, summary, result>>

\* A closure that never treats a node as visited (the guard of line 114 dropped)
neverVisited(vis, node) == FALSE

\* if (visited.has(node.path)) return summary
alreadyVisited(vis, node) == node.path \in vis

\* Lines 114-130 of buildComponentSummary for a node not visited yet: the state
\* after the node is entered, its frame on top of the stack
entered(stk, vis, sum, node) ==
    [stack |-> Append(stk, [node |-> node,
                            children |-> collectFileDependencies(node, nodes, fileIndex,
                                                                 contentDependencyMap),
                            next |-> 1]),
     visited |-> vis \cup {node.path},
     summary |-> withPackageReferences(sum, node)]

\* A visited set that outlives the computation it was made for
sharedVisited(vis) == vis

\* visited: Set<string> = new Set(): the default of the outermost call
freshVisited(vis) == {}

\* summary: ComponentSummary = {...new Set()}: the default of the outermost call
freshSummary(sum) == EmptySummary

\* summarizeComponent(candidatePath, fileIndex, rootPath, options) up to the call of
\* buildComponentSummary with its default summary and visited set; held is the
\* result of an earlier call the caller still holds (option)
Summarize(candidatePath, held) ==
    /\ pc = "ready"
    /\ \E found \in {findFileNodeByRelativePath(fileIndex, candidatePath)} :
           IF Len(found) = 0
           THEN /\ result' = <<>>
                /\ cand' = candidatePath
                /\ UNCHANGED <<envVars, pc, stack, visited, summary>>
           ELSE \E e \in {entered(<<>>, freshVisited(visited), freshSummary(summary),
                                  nodes[found[1]])} :
                    /\ stack' = e.stack
                    /\ visited' = e.visited
                    /\ summary' = e.summary
                    /\ cand' = candidatePath
                    /\ result' = held
                    /\ pc' = "closure"
    /\ UNCHANGED <<envVars, disk, pathMappings, nodes, contentFiles, contentDependencyMap,
                   fileIndex, candidates>>

\* summarizeComponent called by a caller that holds no earlier result
Select(candidatePath) == Summarize(candidatePath, <<>>)

\* The paths handed to summarizeComponent: the path of any file node of the tree
SelectFile == \E i \in 1..Len(nodes) : Select(nodes[i].path)

\* One turn of fileDependencies.forEach in buildComponentSummary: the display path of
\* the child is added and buildComponentSummary is called on it
Visit ==
    /\ pc = "closure"
    /\ Len(stack) > 0
    /\ stack[Len(stack)].next <= Len(stack[Len(stack)].children)
    /\ \E child \in {stack[Len(stack)].children[stack[Len(stack)].next]},
          advanced \in {[stack EXCEPT ![Len(stack)].next = @ + 1]} :
        \E added \in {[summary EXCEPT !.fileDependencies = @ \cup {displayPath(child.path)}]} :
            IF alreadyVisited(visited, child)
            THEN /\ stack' = advanced
                 /\ summary' = added
                 /\ UNCHANGED visited
            ELSE \E e \in {entered(advanced, visited, added, child)} :
                    /\ stack' = e.stack
                    /\ visited' = e.visited
                    /\ summary' = e.summary
    /\ UNCHANGED <<envVars, disk, pathMappings, pc, nodes, contentFiles, contentDependencyMap,
                   fileIndex, candidates, cand, result>>

\* A nested call of buildComponentSummary returns to its caller
Return ==
    /\ pc = "closure"
    /\ Len(stack) > 1
    /\ stack[Len(stack)].next > Len(stack[Len(stack)].children)
    /\ stack' = SubSeq(stack, 1, Len(stack) - 1)
    /\ UNCHANGED <<envVars, disk, pathMappings, pc, nodes, contentFiles, contentDependencyMap,
                   fileIndex, candidates, cand, visited, summary, result>>

\* The outermost call returns and summarizeComponent builds its result; the summary
\* and the visited set of the call are left as they are, no later call reads them
Finish ==
    /\ pc = "closure"
    /\ Len(stack) = 1
    /\ stack[1].next > Len(stack[1].children)
    /\ result' = <<summaryResult(cand, stack[1].node, summary)>>
    /\ stack' = <<>>
    /\ pc' = "ready"
    /\ UNCHANGED <<envVars, disk, pathMappings, nodes, contentFiles, contentDependencyMap,
                   fileIndex, candidates, cand, visited, summary>>

(***************************************************************************)
(* Inputs: the files under the scanned root and their import statements.    *)
(***************************************************************************)
\* The sequences over S of length at most n
RECURSIVE SeqsUpTo(_, _)
SeqsUpTo(S, n) ==
    IF n = 0 THEN {<<>>}
    ELSE LET shorter == SeqsUpTo(S, n - 1)
         IN  shorter \cup {Append(q, x) : q \in {r \in shorter : Len(r) = n - 1}, x \in S}

\* The file systems holding the files F, their import statements drawn from
\* specifiers, at most budget import statements in all
RECURSIVE Disks(_, _, _)
Disks(F, specifiers, budget) ==
    IF F = {} THEN {EmptyMap}
    ELSE LET f == CHOOSE x \in F : TRUE
         IN  UNION {{MapSet(d, f, text) : d \in Disks(F \ {f}, specifiers, budget - Len(text))} :
                        text \in SeqsUpTo(specifiers, budget)}

\* Neither registry.info nor registry.info.old exists in the target directory, and
\* none has existed; last is the history of registry.info: its latest content
NoRegistryFiles == [info |-> <<>>, old |-> <<>>, last |-> <<>>]

\* Nothing computed yet: no tree, no index, no candidate, no closure
InitGraph ==
    /\ nodes = <<>>
    /\ contentFiles = <<>>
    /\ contentDependencyMap = EmptyMap
    /\ fileIndex = EmptyMap
    /\ candidates = <<>>
    /\ cand = <<>>
    /\ stack = <<>>
    /\ visited = {}
    /\ summary = EmptySummary
    /\ result = <<>>

\* main has resolved its target and loaded its configuration; no scan is running, the
\* file system has no fault, no registry.info exists
InitRun ==
    /\ tasks = EmptyMap
    /\ faults = {}
    /\ cli = [argument |-> "directory", loaded |-> {"config", "package", "tsconfig"}]
    /\ regFiles = NoRegistryFiles
    /\ regRuns = <<>>
    /\ pc = "start"
    /\ InitGraph

f_a == <<"a", ".", "t", "s">>

f_b == <<"b", ".", "t", "s">>

f_b_js == <<"b", ".", "t", "s", ".", "j", "s">>

f_lib == <<"l", "i", "b", "/", "i", "n", "d", "e", "x", ".", "t", "s">>

s_a == <<".", "/", "a">>

s_b == <<".", "/", "b">>

s_lib == <<"@", "c", "/", "l", "i", "b">>

\* tsconfig paths "@c/*": ["*", "*/index"] with baseUrl the package root
GraphMappings ==
    << [alias |-> <<"@", "c", "/", "*">>,
        targets |-> << RootPath \o <<"/", "*">>,
                       RootPath \o <<"/", "*", "/", "i", "n", "d", "e", "x">> >>] >>

GraphFiles == {f_a, f_b, f_b_js, f_lib}

GraphSpecifiers == {s_a, s_b, LeftPad, s_lib}

Init ==
    /\ InitRun
    /\ pathMappings = GraphMappings
    /\ \E F \in SUBSET GraphFiles :
        /\ Cardinality(F) \in 1..MaxFiles
        /\ disk \in Disks(F, GraphSpecifiers, MaxImports)

Next == Scan \/ Annotate \/ Attach \/ Index \/ SelectFile \/ Visit \/ Return \/ Finish

Spec == Init /\ [][Next]_vars

(***************************************************************************)
(* The import graph the properties are stated against: the candidate paths  *)
(* of every entry and the nodes they resolve to.                            *)
(***************************************************************************)
\* The annotation pass has run on the tree
Annotated == pc \notin {"start", "scanned"}

\* The candidates and the index have been computed
Indexed == pc \in {"ready", "closure"}

\* summarizeComponent has returned a result for cand
Summarized == pc = "ready" /\ Len(result) = 1

\* The import entries of the tree: <<k, j>> is entry j of file k
Entries(files) == UNION {{<<k, j>> : j \in 1..Len(files[k].imports)} : k \in 1..Len(files)}

\* <<k, j, t, i>>: the candidate path t of entry j of file k resolves to node i
ResolvedPaths(files) ==
    LET resolved(lookup) ==
            UNION {{<<e[1], e[2], t, findFileNodeByRelativePath(lookup, t)>> :
                       t \in resolveImportTargets(files[e[1]], files[e[1]].imports[e[2]])} :
                      e \in Entries(files)}
        hits(paths) == {<<p[1], p[2], p[3], p[4][1]>> : p \in {q \in paths : Len(q[4]) > 0}}
    IN  hits(resolved(buildFileLookup(files)))

\* <<k, j, i>>: the resolved edges, one per importing file, entry and target file
ResolvedEdges(files) == {<<p[1], p[2], p[4]>> : p \in ResolvedPaths(files)}

\* The files node i imports
Successors(edges, i) == {e[3] : e \in {d \in edges : d[1] = i}}

\* The files reachable from the nodes of S through edges, S included
RECURSIVE ReachFrom(_, _)
ReachFrom(edges, S) ==
    LET grown(T) == IF T \subseteq S THEN S ELSE ReachFrom(edges, S \cup T)
    IN  grown(UNION {Successors(edges, i) : i \in S})

\* The number of occurrences of x in the sequence s
Occurrences(s, x) == Cardinality({i \in 1..Len(s) : s[i] = x})

(***************************************************************************)
(* Import counts and candidates.                                            *)
(***************************************************************************)
\* C1 as stated: after the annotation pass, the importCount of every file is the
\* number of distinct resolved edges (importing file, import entry, target file)
\* that end in it, an entry counting once however many of its candidate paths
\* resolve to the file
C1_CountIsNumberOfEdges ==
    Annotated =>
        LET counted(edges) ==
                \A i \in 1..Len(nodes) :
                    nodes[i].importCount = Cardinality({e \in edges : e[3] = i})
        IN  counted(ResolvedEdges(nodes))

\* What the pass counts: the importCount of every file is the number of distinct
\* triples (importing file, import entry, candidate path) whose candidate path
\* resolves to it, so an entry with two differently spelled candidate paths that
\* resolve to the file counts twice
CountIsNumberOfResolvedPaths ==
    Annotated =>
        LET counted(paths) ==
                \A i \in 1..Len(nodes) :
                    nodes[i].importCount = Cardinality({p \in paths : p[4] = i})
        IN  counted(ResolvedPaths(nodes))

\* A tree where one entry reaches a file through two candidate paths has been annotated
C1_TwoPathsOneTarget ==
    /\ Annotated
    /\ \E p \in ResolvedPaths(nodes), q \in ResolvedPaths(nodes) :
        p[1] = q[1] /\ p[2] = q[2] /\ p[4] = q[4] /\ p[3] # q[3]

\* C2 as stated: a file is in the list of getComponentCandidates if and only if no
\* other file of the tree has an import that resolves to it; an import of itself
\* does not count
C2_CandidateIffNoOtherImporter ==
    Indexed =>
        LET listed(edges) ==
                \A i \in 1..Len(nodes) :
                    (nodes[i].path \in Range(candidates))
                        <=> ~(\E e \in edges : e[3] = i /\ e[1] # i)
        IN  listed(ResolvedEdges(nodes))

(***************************************************************************)
(* The closure of a candidate.                                              *)
(***************************************************************************)
\* Every path a closure can visit: the files of the tree and the content files of
\* the content-dependency map
AllPaths ==
    {nodes[i].path : i \in 1..Len(nodes)}
        \cup UNION {Range(contentDependencyMap[p]) : p \in DOMAIN contentDependencyMap}

\* The paths the running closure has not visited
Unvisited == Cardinality(AllPaths \ visited)

\* The children the frames of the stack have not turned to yet
RECURSIVE Remaining(_)
Remaining(stk) ==
    IF Len(stk) = 0 THEN 0
    ELSE (Len(Head(stk).children) - Head(stk).next + 1) + Remaining(Tail(stk))

\* A step inside the closure decreases (Unvisited, Remaining, depth of the stack) in
\* the lexicographic order
ClosureStepDecreases ==
    \/ Unvisited' < Unvisited
    \/ /\ Unvisited' = Unvisited
       /\ Remaining(stack') < Remaining(stack)
    \/ /\ Unvisited' = Unvisited
       /\ Remaining(stack') = Remaining(stack)
       /\ Len(stack') < Len(stack)

\* The position in nodes of the node the closure of the last result started from
RootOf(res) == CHOOSE i \in 1..Len(nodes) : nodes[i].path = res.node

\* The pairs of distinct files that import each other
MutualImports(edges) ==
    {<<i, k>> \in (1..Len(nodes)) \X (1..Len(nodes)) :
        i # k /\ k \in Successors(edges, i) /\ i \in Successors(edges, k)}

\* In the result of a file that is in a mutual import, both files occur exactly once
MutualOnce ==
    Summarized =>
        LET once(res, pairs) ==
                \A pr \in pairs :
                    pr[1] = RootOf(res) =>
                        /\ Occurrences(res.fileDependencies, displayPath(nodes[pr[1]].path)) = 1
                        /\ Occurrences(res.fileDependencies, displayPath(nodes[pr[2]].path)) = 1
        IN  once(result[1], MutualImports(ResolvedEdges(nodes)))

\* C6: the closure computation terminates on every import graph, self-imports and
\* cycles included: while it runs some step is always possible, every step
\* decreases a well-founded measure, and for two files that import each other the
\* result of either holds each of the two exactly once
C6_ClosureTerminates ==
    [][/\ pc' = "closure" => /\ Len(stack') >= 1
                             /\ visited' \subseteq AllPaths'
       /\ (pc = "closure" /\ pc' = "closure") => ClosureStepDecreases
       /\ MutualOnce]_vars

\* The closure of a file that is in a mutual import has returned
C6_MutualImportSummarized ==
    /\ Summarized
    /\ \E pr \in MutualImports(ResolvedEdges(nodes)) : pr[1] = RootOf(result[1])

\* The sequence s lists exactly the elements of the set S, each once
ListsOnce(s, S) == Range(s) = S /\ Len(s) = Cardinality(S)

\* C7 as stated: for every candidate c, fileDependencies is exactly c and every file
\* reachable from c through resolved import edges, each once, and dependencies and
\* registryDependencies are exactly the package and registry references of the
\* imports of c and of the reachable files
C7_ClosureIsReachableSet ==
    (Summarized /\ cand \in Range(candidates)) =>
        LET c == CHOOSE i \in 1..Len(nodes) : nodes[i].path = cand
            exact(res, reach) ==
                /\ ListsOnce(res.fileDependencies, {displayPath(nodes[i].path) : i \in reach})
                /\ ListsOnce(res.dependencies,
                             UNION {collectPackageReferences(nodes[i], "dependency")
                                        \cup collectPackageReferences(nodes[i], "devDependency") :
                                       i \in reach})
                /\ ListsOnce(res.registryDependencies,
                             UNION {collectPackageReferences(nodes[i], "registryDependency") :
                                       i \in reach})
        IN  exact(result[1], ReachFrom(ResolvedEdges(nodes), {c}))

(***************************************************************************)
(* The end-to-end example: a.ts imports './b', b.ts imports 'left-pad',     *)
(* left-pad 1.0.0 in the dependencies of the manifest.                      *)
(***************************************************************************)
ExampleDisk == [p \in {f_a, f_b} |-> IF p = f_a THEN <<s_b>> ELSE <<LeftPad>>]

\* The parts of the example both readings share: the counts, the candidates and the
\* fileDependencies of the closure of a.ts
ExampleCounts ==
    /\ Annotated => /\ Len(nodes) = 2
                    /\ nodes[1].path = f_a /\ nodes[1].importCount = 0
                    /\ nodes[2].path = f_b /\ nodes[2].importCount = 1
    /\ Indexed => candidates = <<f_a>>
    /\ (Summarized /\ cand = f_a) => result[1].fileDependencies = <<f_a, f_b>>

f_ab_ts == <<"a", "/", "b", ".", "t", "s">>

f_ab_tsx == <<"a", "/", "b", ".", "t", "s", "x">>

f_ab_index == <<"a", "/", "b", "/", "i", "n", "d", "e", "x", ".", "t", "s">>

f_c == <<"c", ".", "t", "s">>

IndexFiles == {f_ab_ts, f_ab_tsx, f_ab_index, f_c}

IndexSpecifiers == {s_b}

InitIndex ==
    /\ InitRun
    /\ pathMappings = <<>>
    /\ \E F \in SUBSET IndexFiles :
        /\ Cardinality(F) \in 1..MaxFiles
        /\ disk \in Disks(F, IndexSpecifiers, MaxImports)

\* The spellings that apply to the file p with the allowed extension e: "./" followed
\* by p, by p without e and, for a file index.e of a directory, by the directory
Spellings(p) ==
    LET bases == {Slice(p, 0, Len(p) - Len(e)) : e \in {x \in AllowedExtensions : EndsWith(p, x)}}
        dirs == {Slice(b, 0, Len(b) - 6) :
                    b \in {x \in bases : EndsWith(x, <<"/", "i", "n", "d", "e", "x">>)}}
    IN  {<<".", "/">> \o q : q \in {p} \cup bases \cup dirs}

\* summarizeComponent called with any spelling of the path of a file of the tree
SelectSpelling == \E i \in 1..Len(nodes) : \E s \in Spellings(nodes[i].path) : Select(s)

NextIndex == Scan \/ Annotate \/ Attach \/ Index \/ SelectSpelling \/ Visit \/ Return \/ Finish

SpecIndex == InitIndex /\ [][NextIndex]_vars

\* summarizeComponent has looked cand up in the index
Looked == Indexed /\ cand # <<>>

\* The path of the node the lookup of cand returned (option)
LookedUp ==
    IF pc = "closure" THEN <<stack[1].node.path>>
    ELSE IF Len(result) = 1 THEN <<result[1].node>>
    ELSE <<>>

\* C3 as stated: for every file node with an allowed extension, the lookup of every
\* spelling that applies to it (./a/b and ./a/b.e for a/b.e; ./a/b, ./a/b/index and
\* ./a/b/index.e for a/b/index.e) returns that node, in every tree, other files
\* beside it included
C3_EverySpellingFindsTheFile ==
    Looked =>
        \A i \in 1..Len(nodes) :
            cand \in Spellings(nodes[i].path) => LookedUp = <<nodes[i].path>>

\* C3 amended: the lookup of a spelling returns the file it applies to when no other
\* file of the tree shares the spelling; when several files share it (a/b.ts beside
\* a/b.tsx or a/b/index.ts and the spelling ./a/b) the lookup returns, for all of
\* them, the one that comes last in the walk of the tree
C3_SpellingFindsTheLastFile ==
    Looked =>
        LET sharing == {i \in 1..Len(nodes) : cand \in Spellings(nodes[i].path)}
        IN  sharing # {} => LookedUp = <<nodes[Max(sharing)].path>>

\* A spelling shared by two files of the tree has been looked up
C3_SharedSpellingLooked ==
    /\ Looked
    /\ Cardinality({i \in 1..Len(nodes) : cand \in Spellings(nodes[i].path)}) >= 2
    /\ Len(LookedUp) = 1

(***************************************************************************)
(* The alias classifier: one file with one import, classified by the scan.  *)
(***************************************************************************)
\* "@x/*": ["src/*"]
WildcardMapping ==
    [alias |-> <<"@", "x", "/", "*">>, targets |-> << RootPath \o <<"/", "s", "r", "c", "/", "*">> >>]

\* "@x/*/y": ["src/*", "lib/*/y"]
InfixMapping ==
    [alias |-> <<"@", "x", "/", "*", "/", "y">>,
     targets |-> << RootPath \o <<"/", "s", "r", "c", "/", "*">>, RootPath \o <<"/", "l", "i", "b", "/", "*", "/", "y">> >>]

\* "@x/f": ["src/f"]
ExactMapping ==
    [alias |-> <<"@", "x", "/", "f">>, targets |-> << RootPath \o <<"/", "s", "r", "c", "/", "f">> >>]

AliasMappingLists ==
    {<<WildcardMapping>>, <<InfixMapping>>, <<ExactMapping>>, <<ExactMapping, WildcardMapping>>,
     <<InfixMapping, WildcardMapping>>, <<WildcardMapping, InfixMapping>>}

s_foo_bar == <<"@", "x", "/", "f", "o", "o", "/", "b", "a", "r">>

AliasSpecifiers ==
    {p \o m \o q : p \in {<<"@", "x", "/">>, <<"@", "x">>},
                   m \in SeqsUpTo({"f", "/"}, MaxSpecLen),
                   q \in {<<>>, <<"/", "y">>}}
        \cup {s_foo_bar}

InitAlias ==
    /\ InitRun
    /\ pathMappings \in AliasMappingLists
    /\ \E s \in AliasSpecifiers : disk = [p \in {f_a} |-> <<s>>]

NextAlias == Scan

SpecAlias == InitAlias /\ [][NextAlias]_vars

\* The file has been scanned and its import classified
Classified == pc = "scanned" /\ Len(nodes) = 1 /\ Len(nodes[1].imports) = 1

\* The paths the targets of a mapping resolve to for the captured middle
ExpectedPaths(mapping, middle) ==
    [t \in 1..Len(mapping.targets) |->
        PathRelative(PackageRoot, ReplaceAllStars(mapping.targets[t], middle))]

\* C4 as stated: for a wildcard alias p*q, the import is reported as matching the
\* alias if and only if its specifier starts with p and ends with q, and then every
\* target has its * replaced by the middle of the specifier between p and q; alias
\* @x/* with target /root/src/* and specifier @x/foo/bar gives src/foo/bar
C4_WildcardMatchesPrefixAndSuffix ==
    (Classified /\ Includes(pathMappings[1].alias, <<"*">>)) =>
        LET entry == nodes[1].imports[1]
            s == nodes[1].imports[1].moduleSpecifier
            p == Split(pathMappings[1].alias, "*")[1]
            q == Split(pathMappings[1].alias, "*")[2]
        IN  /\ (entry.pathAlias = <<pathMappings[1].alias>>)
                   <=> (StartsWith(s, p) /\ EndsWith(s, q))
            /\ (StartsWith(s, p) /\ EndsWith(s, q)) =>
                   entry.resolvedPaths =
                       ExpectedPaths(pathMappings[1], Slice(s, Len(p), Len(s) - Len(q)))
            /\ (pathMappings = <<WildcardMapping>> /\ s = s_foo_bar) =>
                   entry.resolvedPaths = << <<"s", "r", "c", "/", "f", "o", "o", "/", "b", "a", "r">> >>

\* C5 as stated: for an alias without a wildcard (no earlier pattern matching), the
\* import is classified as aliased by the pattern if and only if its specifier is
\* equal to the pattern, and then it carries pathAlias = the pattern and
\* resolvedPaths = the targets of the pattern
C5_ExactAliasMatchesEqualSpecifier ==
    (Classified /\ ~Includes(pathMappings[1].alias, <<"*">>)) =>
        LET entry == nodes[1].imports[1]
        IN  /\ (entry.pathAlias = <<pathMappings[1].alias>>)
                   <=> (entry.moduleSpecifier = pathMappings[1].alias)
            /\ (entry.moduleSpecifier = pathMappings[1].alias) =>
                   entry.resolvedPaths = ExpectedPaths(pathMappings[1], <<>>)

(***************************************************************************)
(* Content files: widget.ts beside widget.content.ts.                       *)
(***************************************************************************)
f_widget == <<"w", "i", "d", "g", "e", "t", ".", "t", "s">>

f_widget_content == <<"w", "i", "d", "g", "e", "t", ".", "c", "o", "n", "t", "e", "n", "t", ".", "t", "s">>

s_widget_content == <<".", "/", "w", "i", "d", "g", "e", "t", ".", "c", "o", "n", "t", "e", "n", "t">>

ContentTreeFiles == {f_widget, f_widget_content, f_b}

ContentSpecifiers == {LeftPad, s_b, s_widget_content}

InitContent ==
    /\ InitRun
    /\ pathMappings = <<>>
    /\ \E F \in SUBSET ContentTreeFiles :
        /\ Cardinality(F) \in 1..MaxFiles
        /\ disk \in Disks(F, ContentSpecifiers, MaxImports)

\* The run of main on a tree with content files
SpecPipeline == InitContent /\ [][Next]_vars

\* The run of a user of the module who records the content files after the scan
NextApi == Next \/ RecordContentFile

SpecContent == InitContent /\ [][NextApi]_vars

\* C9 as stated: for a root holding widget.ts and widget.content.ts, neither
\* imported, after scan, annotation and attachment the closure of widget.ts has
\* widget.content.ts among its file dependencies, with type file in its files
C9_WidgetClosureHasContentFile ==
    (/\ disk = [p \in {f_widget, f_widget_content} |-> <<>>]
     /\ Summarized
     /\ cand = f_widget) =>
        /\ f_widget_content \in Range(result[1].fileDependencies)
        /\ \E k \in 1..Len(result[1].files) :
            /\ result[1].files[k].path = f_widget_content
            /\ result[1].files[k].type = "registry:file"

\* The content files a closure reached through a content edge: those of the content
\* dependencies of a file of the closure
ReachedByContentEdge(res) ==
    {i \in 1..Len(nodes) :
        \E p \in DOMAIN contentDependencyMap :
            /\ displayPath(p) \in Range(res.fileDependencies)
            /\ nodes[i].path \in Range(contentDependencyMap[p])}

\* C8 as stated: a content file reached through a content edge is traversed like a
\* file reached through an import: the packages, registry entries and files its own
\* imports designate are part of the closure
C8_ContentFileIsExpanded ==
    Summarized =>
        LET expanded(res, edges) ==
                \A i \in ReachedByContentEdge(res) :
                    /\ collectPackageReferences(nodes[i], "dependency")
                           \subseteq Range(res.dependencies)
                    /\ collectPackageReferences(nodes[i], "devDependency")
                           \subseteq Range(res.dependencies)
                    /\ collectPackageReferences(nodes[i], "registryDependency")
                           \subseteq Range(res.registryDependencies)
                    /\ \A k \in Successors(edges, i) :
                           displayPath(nodes[k].path) \in Range(res.fileDependencies)
        IN  expanded(result[1], ResolvedEdges(nodes))

\* A closure that reached a content file with imports through a content edge has
\* returned
C8_ContentEdgeFollowed ==
    /\ Summarized
    /\ \E i \in ReachedByContentEdge(result[1]) : Len(nodes[i].imports) > 0

(***************************************************************************)
(* Several closures against one tree: a caller that computes the closure of *)
(* one path after another and holds the previous result (candidates.map in  *)
(* generateRegistryJson, the loop of the explorer).                         *)
(***************************************************************************)
\* buildComponentSummary taken as one call: the summary and the visited set it
\* returns with; visitChildren is its fileDependencies.forEach from child k on
RECURSIVE buildComponentSummary(_, _, _), visitChildren(_, _, _)
buildComponentSummary(node, sum, vis) ==
    IF alreadyVisited(vis, node) THEN [summary |-> sum, visited |-> vis]
    ELSE LET from(e) == visitChildren(e.stack[1].children, 1,
                                      [summary |-> e.summary, visited |-> e.visited])
         IN  from(entered(<<>>, vis, sum, node))

visitChildren(children, k, acc) ==
    IF k > Len(children) THEN acc
    ELSE visitChildren(children, k + 1,
             buildComponentSummary(children[k],
                 [acc.summary EXCEPT !.fileDependencies = @ \cup {displayPath(children[k].path)}],
                 acc.visited))

SessionFiles == {f_a, f_b, f_c}

SessionSpecifiers == {s_a, s_b, LeftPad}

InitSession ==
    /\ InitRun
    /\ pathMappings = <<>>
    /\ \E F \in SUBSET SessionFiles :
        /\ Cardinality(F) \in 1..MaxFiles
        /\ disk \in Disks(F, SessionSpecifiers, MaxImports)

\* summarizeComponent called for a path while the caller holds the result of the
\* previous call
SelectNext ==
    /\ Len(result) = 1
    /\ \E i \in 1..Len(nodes) : Summarize(nodes[i].path, result)

NextSession ==
    Scan \/ Annotate \/ Attach \/ Index \/ SelectFile \/ SelectNext \/ Visit \/ Return \/ Finish

SpecSession == InitSession /\ [][NextSession]_vars

\* C11: the closure of the same candidate computed twice in a row against the same
\* tree, index and content-dependency map gives the same dependencies,
\* registryDependencies, fileDependencies and files in the same order, and the
\* computation changes no node, no importCount, no index entry and no entry of the
\* content-dependency map
C11_ClosureIsIdempotent ==
    [][/\ (pc = "closure" \/ pc' = "closure") =>
              UNCHANGED <<envVars, nodes, fileIndex, contentDependencyMap, contentFiles, candidates>>
       /\ (pc = "closure" /\ pc' = "ready" /\ Len(result) = 1
               /\ result[1].candidatePath = cand) => result' = result]_vars

\* The second closure of a candidate with a dependency is about to return while the
\* result of the first is held
C11_SecondClosureComputed ==
    /\ pc = "closure"
    /\ Len(result) = 1
    /\ result[1].candidatePath = cand
    /\ Len(stack) = 1
    /\ stack[1].next > Len(stack[1].children)
    /\ Cardinality(visited) >= 2

\* C12: the visited set is private to a closure computation: a computation starts
\* with nothing visited but its own root whatever was visited before, one
\* computation returns before another starts, and the closure of a path computed
\* after closures of other paths is the closure of that path computed alone
C12_VisitedSetIsPrivate ==
    [][/\ (pc # "closure" /\ pc' = "closure") => visited' = {stack'[1].node.path}
       /\ pc = "closure" => (cand' = cand /\ Len(stack) >= 1)
       /\ Summarized =>
              LET alone(root) ==
                      summaryResult(cand, root,
                                    buildComponentSummary(root, EmptySummary, {}).summary)
              IN  result[1] = alone(nodes[RootOf(result[1])])]_vars

\* A closure has entered a file that the closure computed before it, for another
\* path, had visited too
C12_SharedFileVisitedAgain ==
    /\ pc = "closure"
    /\ Len(result) = 1
    /\ result[1].node # stack[1].node.path
    /\ \E p \in visited \ {stack[1].node.path} :
           displayPath(p) \in Range(result[1].fileDependencies)

(***************************************************************************)
(* The type of the entries of a closure's files list.                       *)
(***************************************************************************)
f_card == <<"c", "a", "r", "d", ".", "t", "s", "x">>

f_card_content == <<"c", "a", "r", "d", ".", "c", "o", "n", "t", "e", "n", "t", ".", "t", "s", "x">>

s_card_content == <<".", "/", "c", "a", "r", "d", ".", "c", "o", "n", "t", "e", "n", "t">>

TypeFiles == {f_card, f_card_content, f_widget, f_widget_content}

TypeSpecifiers == {s_card_content, s_widget_content}

InitTypes ==
    /\ InitRun
    /\ pathMappings = <<>>
    /\ \E F \in SUBSET TypeFiles :
        /\ Cardinality(F) \in 1..MaxFiles
        /\ disk \in Disks(F, TypeSpecifiers, MaxImports)

SpecTypes == InitTypes /\ [][NextIndex]_vars

\* The type the rule gives a path: file for a path that ends in a content suffix,
\* otherwise by the extension
TypeOfPath(p) ==
    IF \E q \in ContentSuffixes : EndsWith(p, q) THEN "registry:file"
    ELSE IF PathExtname(p) \in {<<".", "t", "s", "x">>, <<".", "j", "s", "x">>} THEN "registry:component"
    ELSE IF PathExtname(p) \in {<<".", "t", "s">>, <<".", "j", "s">>} THEN "registry:lib"
    ELSE "registry:file"

\* C13 as stated: every entry of a closure's files list has type file when its path
\* ends in a content suffix (.content.ts, .content.tsx, .content.js, .content.jsx),
\* otherwise component for the extensions .tsx and .jsx, lib for .ts and .js, and
\* file for any other extension
C13_TypeFollowsSuffixThenExtension ==
    Summarized =>
        \A k \in 1..Len(result[1].files) :
            result[1].files[k].type = TypeOfPath(result[1].files[k].path)

\* A closure whose files list holds a path that ends in .content.tsx has returned
C13_ContentTsxListed ==
    /\ Summarized
    /\ \E k \in 1..Len(result[1].files) :
           EndsWith(result[1].files[k].path, <<".", "c", "o", "n", "t", "e", "n", "t", ".", "t", "s", "x">>)

(***************************************************************************)
(* The content-dependency heuristic on a tree with directories.             *)
(***************************************************************************)
f_lib_x == <<"l", "i", "b", "/", "x", ".", "t", "s">>

f_lib_x_content == <<"l", "i", "b", "/", "x", ".", "c", "o", "n", "t", "e", "n", "t", ".", "t", "s">>

f_lib_sub_y == <<"l", "i", "b", "/", "s", "u", "b", "/", "y", ".", "t", "s">>

f_lib_z == <<"l", "i", "b", "/", "z", ".", "t", "s">>

f_w_content == <<"w", ".", "c", "o", "n", "t", "e", "n", "t", ".", "t", "s">>

s_sub_y == <<".", "/", "s", "u", "b", "/", "y">>

AttachFiles == {f_lib_x, f_lib_x_content, f_lib_sub_y, f_lib_z, f_w_content}

AttachSpecifiers == {s_sub_y, LeftPad}

InitAttach ==
    /\ InitRun
    /\ pathMappings = <<>>
    /\ \E F \in SUBSET AttachFiles :
        /\ Cardinality(F) \in 1..MaxFiles
        /\ disk \in Disks(F, AttachSpecifiers, MaxImports)

NextAttach == Scan \/ RecordContentFile \/ Annotate \/ Attach

SpecAttach == InitAttach /\ [][NextAttach]_vars

\* attachContentDependencies has returned
Attached == pc = "attached"

\* The files with a content edge to the content file of path p
EdgesTo(p) ==
    {i \in 1..Len(nodes) :
        /\ nodes[i].path \in DOMAIN contentDependencyMap
        /\ p \in Range(contentDependencyMap[nodes[i].path])}

\* The exact siblings of a content file: the files whose path without its extension
\* is the base path of the content file
Siblings(content) ==
    {i \in 1..Len(nodes) :
        \E e \in AllowedExtensions : nodes[i].path = content.basePath \o e}

\* The file of path p lies under the directory dir, at least `levels` directories
\* further down than the files directly in it
LiesUnder(p, dir, levels) ==
    LET below(ps, ds) == /\ Len(ps) >= Len(ds) + 1 + levels
                         /\ SubSeq(ps, 1, Len(ds)) = ds
    IN  below(Split(p, "/"), IF dir = <<".">> THEN <<>> ELSE Split(dir, "/"))

\* C14: for every recorded content file with at least one exact sibling, a content
\* edge is recorded from each sibling and from no other file: the content file is
\* not handed to the fallback, which runs only for content files without sibling
C14_SiblingMatchExcludesFallback ==
    Attached =>
        \A c \in Range(contentFiles) :
            Siblings(c) # {} => EdgesTo(c.path) = Siblings(c)

\* A content file with an exact sibling has been attached in a tree where the
\* fallback would have found a file for it
C14_SiblingBesideFallbackTarget ==
    /\ Attached
    /\ \E c \in Range(contentFiles) :
        /\ Siblings(c) # {}
        /\ \E i \in 1..Len(nodes) : i \notin Siblings(c) /\ nodes[i].importCount = 0
                                    /\ LiesUnder(nodes[i].path, c.directory, 1)

\* C15 as stated: for a content file without exact sibling, the fallback records an
\* edge from every file with importCount 0 whose path lies under the directory of
\* the content file at any depth, the files directly in the directory included,
\* from each of them when there are several, and from no file with importCount >= 1
C15_FallbackTakesDirectoryAtAnyDepth ==
    Attached =>
        \A c \in Range(contentFiles) :
            Siblings(c) = {} =>
                EdgesTo(c.path) = {i \in 1..Len(nodes) :
                                      /\ nodes[i].importCount = 0
                                      /\ LiesUnder(nodes[i].path, c.directory, 0)}

\* C15 amended: the fallback records an edge from every file with importCount 0
\* whose path lies at least one directory level below the directory of the content
\* file (in a subdirectory of it, at any depth), from each of them when there are
\* several; the files directly in the directory and the files with importCount >= 1
\* get no edge
C15_FallbackTakesSubdirectories ==
    Attached =>
        \A c \in Range(contentFiles) :
            Siblings(c) = {} =>
                EdgesTo(c.path) = {i \in 1..Len(nodes) :
                                      /\ nodes[i].importCount = 0
                                      /\ LiesUnder(nodes[i].path, c.directory, 1)}

\* The fallback has run for a content file whose directory holds a file with
\* importCount 0 directly and another one in a subdirectory
C15_FallbackRan ==
    /\ Attached
    /\ \E c \in Range(contentFiles) :
        /\ Siblings(c) = {}
        /\ EdgesTo(c.path) # {}
        /\ \E i \in 1..Len(nodes) :
            /\ nodes[i].path # c.path
            /\ nodes[i].importCount = 0
            /\ LiesUnder(nodes[i].path, c.directory, 0)
            /\ ~LiesUnder(nodes[i].path, c.directory, 1)

(***************************************************************************)
(* The manifest classifier: one file with one import, classified by the     *)
(* scan against the dependencies and devDependencies of the manifest.       *)
(***************************************************************************)
ManifestSpecifiers ==
    {h \o t : h \in {LeftPad, Tsx, ScopedPackage, AnyVersionPackage, <<"@", "s">>, <<"o">>},
              t \in SeqsUpTo({"/", "x"}, MaxSpecLen)}

InitManifest ==
    /\ InitRun
    /\ pathMappings = <<>>
    /\ \E s \in ManifestSpecifiers : disk = [p \in {f_a} |-> <<s>>]

NextManifest == Scan

SpecManifest == InitManifest /\ [][NextManifest]_vars

\* The package name of a specifier (option): its first /-separated segment, or its
\* first two segments when it starts with @
PackageNameOf(s) ==
    LET named(segs) == IF s[1] = "@"
                       THEN IF Len(segs) >= 2 THEN << segs[1] \o <<"/">> \o segs[2] >> ELSE <<>>
                       ELSE << segs[1] >>
    IN  named(Split(s, "/"))

\* The entry carries the reference `ref` (option) under the name n
RefersTo(ref, n) == Len(ref) = 1 /\ ref[1].name = n

\* C16 as stated: the edge carries dependency when the package name of its
\* specifier is a key of the dependencies of the manifest, otherwise devDependency
\* when it is a key of devDependencies, otherwise neither; no edge carries both and
\* a name in both maps is reported as dependency only
C16_ManifestMatchByKey ==
    Classified =>
        LET carries(entry, name) ==
                /\ ~(Len(entry.dependency) = 1 /\ Len(entry.devDependency) = 1)
                /\ IF Len(name) = 1 /\ name[1] \in DOMAIN PackageDependencies
                   THEN RefersTo(entry.dependency, name[1]) /\ entry.devDependency = <<>>
                   ELSE IF Len(name) = 1 /\ name[1] \in DOMAIN PackageDevDependencies
                   THEN RefersTo(entry.devDependency, name[1]) /\ entry.dependency = <<>>
                   ELSE entry.dependency = <<>> /\ entry.devDependency = <<>>
        IN  carries(nodes[1].imports[1], PackageNameOf(nodes[1].imports[1].moduleSpecifier))

\* An import of a package that is in both maps of the manifest has been classified
C16_NameInBothMaps ==
    /\ Classified
    /\ Len(PackageNameOf(nodes[1].imports[1].moduleSpecifier)) = 1
    /\ PackageNameOf(nodes[1].imports[1].moduleSpecifier)[1]
           \in DOMAIN PackageDependencies \cap DOMAIN PackageDevDependencies

(***************************************************************************)
(* Several alias patterns.                                                  *)
(***************************************************************************)
\* The pattern matches the specifier: equal to it for a pattern without wildcard,
\* starting with its prefix and ending with its suffix for a pattern p*q
PatternMatches(s, alias) ==
    IF Includes(alias, <<"*">>)
    THEN StartsWith(s, Split(alias, "*")[1]) /\ EndsWith(s, Split(alias, "*")[2])
    ELSE s = alias

\* The part of the specifier the wildcard of the pattern stands for
MiddleOf(s, alias) ==
    IF Includes(alias, <<"*">>)
    THEN Slice(s, Len(Split(alias, "*")[1]), Len(s) - Len(Split(alias, "*")[2]))
    ELSE <<>>

\* The positions of the configured patterns that match the specifier
MatchingPatterns(s) ==
    {k \in 1..Len(pathMappings) : PatternMatches(s, pathMappings[k].alias)}

\* C17 as stated: when a specifier matches several configured patterns, pathAlias
\* and resolvedPaths come from the first matching pattern of the list and later
\* patterns contribute nothing; when no pattern matches both are absent
C17_FirstMatchingPatternWins ==
    Classified =>
        LET from(entry, M) ==
                IF M = {} THEN entry.pathAlias = <<>> /\ entry.resolvedPaths = <<>>
                ELSE IF Cardinality(M) = 1 THEN TRUE
                ELSE /\ entry.pathAlias = <<pathMappings[Min(M)].alias>>
                     /\ entry.resolvedPaths =
                            ExpectedPaths(pathMappings[Min(M)],
                                          MiddleOf(entry.moduleSpecifier,
                                                   pathMappings[Min(M)].alias))
        IN  from(nodes[1].imports[1], MatchingPatterns(nodes[1].imports[1].moduleSpecifier))

\* An import whose specifier matches two patterns of the list has been classified
C17_TwoPatternsMatch ==
    /\ Classified
    /\ Cardinality(MatchingPatterns(nodes[1].imports[1].moduleSpecifier)) >= 2

(***************************************************************************)
(* Registries: one file whose import goes through an alias that resolves    *)
(* under the prefixes of the known registries.                              *)
(***************************************************************************)
\* "@ui/*": ["ui/*"]
UiMapping ==
    [alias |-> <<"@", "u", "i", "/", "*">>, targets |-> << RootPath \o <<"/", "u", "i", "/", "*">> >>]

\* "@m/*": ["b/*", "ui/*"]
MixedMapping ==
    [alias |-> <<"@", "m", "/", "*">>, targets |-> << RootPath \o <<"/", "b", "/", "*">>, RootPath \o <<"/", "u", "i", "/", "*">> >>]

\* "@o/*": ["src/*"]
OutsideMapping ==
    [alias |-> <<"@", "o", "/", "*">>, targets |-> << RootPath \o <<"/", "s", "r", "c", "/", "*">> >>]

RegistryMappingLists ==
    {<<UiMapping>>, <<MixedMapping>>, <<OutsideMapping>>, <<OutsideMapping, UiMapping>>}

RegistrySpecifiers ==
    {p \o m : p \in {<<"@", "u", "i", "/">>, <<"@", "m", "/">>, <<"@", "o", "/">>}, m \in SeqsUpTo({"f", "/"}, MaxSpecLen)}

InitRegistry ==
    /\ InitRun
    /\ pathMappings \in RegistryMappingLists
    /\ \E s \in RegistrySpecifiers : disk = [p \in {f_a} |-> <<s>>]

NextRegistry == Scan

SpecRegistry == InitRegistry /\ [][NextRegistry]_vars

\* A resolved path as the registries compare it: leading "./" and slashes removed
ComparedPath(p) ==
    LET unslashed(q) == SliceFrom(q, Cardinality({i \in 1..Len(q) : \A j \in 1..i : q[j] = "/"}))
    IN  unslashed(IF Len(p) >= 2 /\ p[1] = "." /\ p[2] = "/" THEN SliceFrom(p, 2) ELSE p)

\* The (resolved path, registry) pairs that qualify: the path starts with the
\* registry's normalizedPrefix and something remains after it
QualifyingPairs(paths) ==
    {pr \in (1..Len(paths)) \X (1..Len(KnownRegistries)) :
        /\ StartsWith(ComparedPath(paths[pr[1]]), KnownRegistries[pr[2]].normalizedPrefix)
        /\ Len(ComparedPath(paths[pr[1]])) > Len(KnownRegistries[pr[2]].normalizedPrefix)}

\* The first pair in list order: resolved paths first, registries within a path
FirstPair(Q) ==
    CHOOSE pr \in Q : \A other \in Q :
        pr[1] < other[1] \/ (pr[1] = other[1] /\ pr[2] <= other[2])

\* C18: an import entry carries registryDependency if and only if it matched an
\* alias and one of its resolved paths, normalized, starts with the
\* normalizedPrefix of a known registry with a non-empty remainder; the name is
\* that remainder and the type the registry's type, both taken from the first
\* (resolved path, registry) pair in list order that qualifies.
C18_RegistryFromFirstQualifyingPair ==
    Classified =>
        LET holds(e, Q) ==
                /\ Len(e.registryDependency) = 1 <=> (Len(e.pathAlias) = 1 /\ Q # {})
                /\ Len(e.registryDependency) = 1 =>
                      LET named(pr) ==
                              /\ e.registryDependency[1].name =
                                     SliceFrom(ComparedPath(e.resolvedPaths[pr[1]]),
                                               Len(KnownRegistries[pr[2]].normalizedPrefix))
                              /\ e.registryDependency[1].type = KnownRegistries[pr[2]].type
                      IN  named(FirstPair(Q))
        IN  holds(nodes[1].imports[1], QualifyingPairs(nodes[1].imports[1].resolvedPaths))

\* C18 witness: an import whose resolved paths qualify for two registries of
\* different types, and which carries a registry dependency
C18_TwoRegistriesQualify ==
    /\ Classified
    /\ Len(nodes[1].imports[1].registryDependency) = 1
    /\ \E p, q \in QualifyingPairs(nodes[1].imports[1].resolvedPaths) :
          /\ p[1] # q[1]
          /\ KnownRegistries[p[2]].type # KnownRegistries[q[2]].type

(***************************************************************************)
(* Registry display strings: closures over files whose imports resolve      *)
(* under the known registries, with names of one and of two levels.         *)
(***************************************************************************)
\* "@c/*": ["c/*"]
TaggedMapping ==
    [alias |-> <<"@", "c", "/", "*">>, targets |-> << RootPath \o <<"/", "c", "/", "*">> >>]

DisplayMappings == <<UiMapping, MixedMapping, TaggedMapping>>

DisplaySpecifiers ==
    {p \o n : p \in {<<"@", "u", "i", "/">>, <<"@", "m", "/">>, <<"@", "c", "/">>}, n \in {<<"f">>, <<"g", "/", "f">>}} \cup {<<"@", "u", "i", "/", "g">>, s_b}

DisplayFiles == {f_a, f_b}

InitDisplay ==
    /\ InitRun
    /\ pathMappings = DisplayMappings
    /\ \E F \in SUBSET DisplayFiles :
        /\ Cardinality(F) \in 1..MaxFiles
        /\ disk \in Disks(F, DisplaySpecifiers, MaxImports)

SpecDisplay == InitDisplay /\ [][Next]_vars

\* The registry references carried by the import entries of the files of the
\* closure that returned res
ClosureRegistryRefs(res) ==
    LET of(paths) ==
            UNION {{nodes[i].imports[j].registryDependency[1] :
                       j \in {k \in 1..Len(nodes[i].imports) :
                                 Len(nodes[i].imports[k].registryDependency) = 1}} :
                      i \in {k \in 1..Len(nodes) : nodes[k].path \in paths}}
    IN  of(buildComponentSummary(nodes[RootOf(res)], EmptySummary, {}).visited)

\* s with every c replaced by the character d
ReplaceEvery(s, c, d) == [i \in 1..Len(s) |-> IF s[i] = c THEN d ELSE s[i]]

\* The part of a registry name after its last "/"
LastSegment(name) ==
    LET segments == Split(name, "/") IN segments[Len(segments)]

\* The string the closure lists for a registry reference: the last segment of the
\* name, alone for the tag @shadcn/ui, after "tag/" otherwise, the first "/" of the
\* tag turned into a hyphen
RegistryDisplay(ref) ==
    IF ref.type = ShadcnUi THEN LastSegment(ref.name)
    ELSE IF CountChar(ref.type, "/") = 0 THEN ref.type \o <<"/">> \o LastSegment(ref.name)
    ELSE ReplaceFirst(ref.type, "/", <<"-">>) \o <<"/">> \o LastSegment(ref.name)

\* C19 as stated: the display string of a registry dependency of a closure keeps
\* every segment of the registry name, joined with hyphens (forms/input gives
\* forms-input), and two registry dependencies with different tags or names never
\* give the same display string.
C19_DisplayKeepsEverySegment ==
    Summarized =>
        LET flat(listed, refs) ==
                /\ \A ref \in refs : \E d \in listed :
                       EndsWith(d, ReplaceEvery(ref.name, "/", "-"))
                /\ Cardinality(listed) = Cardinality(refs)
        IN  flat(Range(result[1].registryDependencies), ClosureRegistryRefs(result[1]))

\* C19 amended: the display strings of the registry dependencies of a closure are
\* exactly, sorted and without duplicates, the last segment of each registry name,
\* alone when the tag is @shadcn/ui and after "tag/" otherwise (the first "/" of a
\* tag that has one turned into a hyphen); references whose names end in the same
\* segment under the same tag share one display string.
C19_DisplayKeepsLastSegment ==
    Summarized =>
        result[1].registryDependencies =
            SortStrings({RegistryDisplay(ref) : ref \in ClosureRegistryRefs(result[1])})

\* C19 witness: a closure with two registry references of the same tag whose names
\* differ and have two levels in one of them
C19_TwoLevelNameSummarized ==
    /\ Summarized
    /\ \E r1, r2 \in ClosureRegistryRefs(result[1]) :
          /\ r1.type = r2.type
          /\ r1.name # r2.name
          /\ Includes(r1.name, <<"/">>)
          /\ LastSegment(r1.name) = LastSegment(r2.name)

(***************************************************************************)
(* The tree scanDirectory returns: directory nodes and file nodes, for      *)
(* entries whose names and extensions are spelled in either case.           *)
(***************************************************************************)
\* The files of the disk below the directory rel ("." is the scanned root)
Below(rel, files) ==
    IF rel = <<".">> THEN DOMAIN files
    ELSE {p \in DOMAIN files : StartsWith(p, rel \o <<"/">>)}

\* The path of p from the directory rel
PathFrom(rel, p) == IF rel = <<".">> THEN p ELSE SliceFrom(p, Len(rel) + 1)

\* readdir(currentPath): the names of the entries of the directory
readdir(rel, files) == {Split(PathFrom(rel, p), "/")[1] : p \in Below(rel, files)}

\* entry.isDirectory(): some file of the disk lies below the entry
isDirectory(rel, name, files) ==
    \E p \in Below(rel, files) :
        /\ Split(PathFrom(rel, p), "/")[1] = name
        /\ Len(Split(PathFrom(rel, p), "/")) > 1

RECURSIVE Concat(_)
Concat(seqs) == IF Len(seqs) = 0 THEN <<>> ELSE Head(seqs) \o Concat(Tail(seqs))

\* scanDirectory(currentPath, rootPath, config, options): the DirectoryNode of the
\* directory rel; a file node is kept as its type, name and path
RECURSIVE scanTree(_, _, _)
scanTree(rel, files, mappings) ==
    LET entryPath(name) == PathJoin(PathJoin(RootPath, rel), name)
        fileNode(name, inspected) ==
            IF Len(inspected) = 0 THEN <<>>
            ELSE << [type |-> "file", name |-> name, path |-> inspected[1].path,
                     children |-> <<>>] >>
        scanned(name) ==
            IF isDirectory(rel, name, files)
            THEN IF skipsDirectory(name) THEN <<>>
                 ELSE << scanTree(relativePath(entryPath(name), RootPath), files, mappings) >>
            ELSE fileNode(name, inspectFile(relativePath(entryPath(name), RootPath),
                                            files[relativePath(entryPath(name), RootPath)],
                                            mappings))
        children(order) == Concat([i \in 1..Len(order) |-> scanned(order[i])])
    IN  [type |-> "directory",
         name |-> PathBasename(PathJoin(RootPath, rel)),
         path |-> relativePath(PathJoin(RootPath, rel), RootPath),
         children |-> children(SortStrings(readdir(rel, files)))]

\* collectFileNodes(root): the file nodes of the tree in the order of the walk
RECURSIVE collectFileNodes(_)
collectFileNodes(node) ==
    IF node.type = "file" THEN <<node>>
    ELSE Concat([i \in 1..Len(node.children) |-> collectFileNodes(node.children[i])])

f_upper_ts == <<"b", ".", "T", "S">>

f_readme == <<"c", ".", "m", "d">>

f_Dist_x == <<"D", "i", "s", "t", "/", "x", ".", "t", "s">>

f_dist_y == <<"d", "i", "s", "t", "/", "y", ".", "t", "s">>

f_lib_dist_z == <<"l", "i", "b", "/", "d", "i", "s", "t", "/", "z", ".", "t", "s">>

f_docs_r == <<"d", "o", "c", "s", "/", "r", ".", "m", "d">>

f_dot_ts == <<".", "t", "s">>

TreeFiles ==
    {f_a, f_upper_ts, f_readme, f_Dist_x, f_dist_y, f_lib_x, f_lib_dist_z, f_docs_r, f_dot_ts}

InitTree ==
    /\ InitRun
    /\ pathMappings = <<>>
    /\ \E F \in SUBSET TreeFiles :
        /\ Cardinality(F) \in 1..MaxFiles
        /\ disk = [p \in F |-> <<>>]

NextTree == Scan

SpecTree == InitTree /\ [][NextTree]_vars

\* The nodes of a tree as <<type, path>>, the root included
RECURSIVE TreeNodes(_)
TreeNodes(node) ==
    {<<node.type, node.path>>}
        \cup UNION {TreeNodes(node.children[i]) : i \in 1..Len(node.children)}

\* The directory entries of the disk: the directories that hold a file, at any depth
DirectoryEntries(files) ==
    UNION {{Join(SubSeq(Split(p, "/"), 1, k), <<"/">>) : k \in 1..(Len(Split(p, "/")) - 1)} :
              p \in DOMAIN files}

\* The entry p is a directory whose lower-cased name is in the skip-set, or lies
\* below one
InSkipped(p) ==
    \E d \in DirectoryEntries([q \in {p \o <<"/", "x">>} |-> <<>>]) :
        ToLowerCase(PathBasename(d)) \in SkipDirectories

\* C20: in the tree returned by scanDirectory, no node lies below a directory entry
\* whose lower-cased name is in the skip-set and such a directory has no node; every
\* other directory entry that is read has a directory node; a file entry that is read
\* has a file node if and only if its lower-cased extension is in the allow-set; the
\* file nodes of the run are those of the tree, in the order of the walk.
C20_TreeFollowsSkipAndAllowSets ==
    pc = "scanned" =>
        LET holds(tree, N) ==
                /\ \A n \in N : n[2] # <<".">> => ~InSkipped(n[2])
                /\ \A d \in DirectoryEntries(disk) :
                       <<"directory", d>> \in N <=> ~InSkipped(d)
                /\ \A p \in DOMAIN disk :
                       <<"file", p>> \in N <=>
                           /\ ~InSkipped(p)
                           /\ ToLowerCase(PathExtname(p)) \in AllowedExtensions
                /\ [i \in 1..Len(nodes) |-> nodes[i].path] =
                       [i \in 1..Len(collectFileNodes(tree)) |-> collectFileNodes(tree)[i].path]
            of(tree) == holds(tree, TreeNodes(tree))
        IN  of(scanTree(<<".">>, disk, pathMappings))

\* C20 witness: a scanned tree with a file below a directory whose name is in the
\* skip-set only once lower-cased, and a file node whose extension is in the
\* allow-set only once lower-cased
C20_UpperCaseNamesScanned ==
    /\ pc = "scanned"
    /\ f_Dist_x \in DOMAIN disk
    /\ f_upper_ts \in DOMAIN disk
    /\ \E i \in 1..Len(nodes) : nodes[i].path = f_upper_ts

(***************************************************************************)
(* scanner.ts: the scan as it runs.  scanDirectory awaits readdir, starts   *)
(* one task per entry (an inspectFile or a scanDirectory of its own) and    *)
(* awaits Promise.all of them; inspectFile awaits readFile and then stat.   *)
(* A task is the promise of one entry; readdir lists the entries in an      *)
(* order of the file system's choosing.                                     *)
(***************************************************************************)
MaxFaults == 1

\* path.join(currentPath, entry.name), relative to the root
entryPath(rel, name) == relativePath(PathJoin(PathJoin(RootPath, rel), name), RootPath)

\* The promise of an entry as the callback of dirEntries.map leaves it: a skipped
\* directory and a file outside the allow-set are null at once, a directory awaits
\* its readdir, a file its readFile
startedTask(rel, name, files, mappings) ==
    IF isDirectory(rel, name, files)
    THEN IF skipsDirectory(name)
         THEN [kind |-> "directory", state |-> "fulfilled", entries |-> <<>>, node |-> <<>>]
         ELSE [kind |-> "directory", state |-> "readdir", entries |-> <<>>, node |-> <<>>]
    ELSE IF Len(inspectFile(entryPath(rel, name), files[entryPath(rel, name)], mappings)) = 0
         THEN [kind |-> "file", state |-> "fulfilled", entries |-> <<>>, node |-> <<>>]
         ELSE [kind |-> "file", state |-> "readFile", entries |-> <<>>, node |-> <<>>]

\* The orders in which readdir may list the names S
Orders(S) == {q \in [1..Cardinality(S) -> S] : Range(q) = S}

\* The tasks of the entries of the directory rel, in the order of dirEntries (each
\* entry is kept as its entryPath)
childTasks(rel) == tasks[rel].entries

\* children kept in the order Promise.all returns them
keptInOrder(children) == children

\* .sort((a, b) => a.name.localeCompare(b.name))
sortByName(children) ==
    LET ordered(names) ==
            [i \in 1..Len(names) |-> CHOOSE n \in Range(children) : n.name = names[i]]
    IN  ordered(SortStrings({n.name : n \in Range(children)}))

\* A Promise.all that is fulfilled as soon as one of its promises is
anyFulfilled(paths) == \E i \in 1..Len(paths) : tasks[paths[i]].state = "fulfilled"

\* Promise.all is fulfilled: every promise is
allFulfilled(paths) == \A i \in 1..Len(paths) : tasks[paths[i]].state = "fulfilled"

\* A Promise.all that no rejection reaches
neverRejected(paths) == FALSE

\* Promise.all is rejected: one of its promises is
someRejected(paths) == \E i \in 1..Len(paths) : tasks[paths[i]].state = "rejected"

\* A caller that goes on while the promise is pending
notAwaited(task) == task.state \in {"readdir", "all", "fulfilled"}

\* await scanDirectory(...) of main resumes: the promise is fulfilled
awaited(task) == task.state = "fulfilled"

\* const result = await scanDirectory(target, target, config, scanOptions): the call
StartScan ==
    /\ pc = "start"
    /\ pc' = "scanning"
    /\ tasks' = [p \in {<<".">>} |->
                    [kind |-> "directory", state |-> "readdir", entries |-> <<>>, node |-> <<>>]]
    /\ UNCHANGED <<disk, pathMappings, nodes, contentFiles, contentDependencyMap, fileIndex,
                   candidates, cand, stack, visited, summary, result,
                   faults, cli, regFiles, regRuns>>

\* await readdir(currentPath) settles: it throws, or the entries are mapped to their
\* tasks and Promise.all is awaited
Listing(rel) ==
    /\ rel \in DOMAIN tasks
    /\ tasks[rel].kind = "directory"
    /\ tasks[rel].state = "readdir"
    /\ IF <<rel, "readdir">> \in faults
       THEN tasks' = [tasks EXCEPT ![rel].state = "rejected"]
       ELSE \E order \in Orders({entryPath(rel, name) : name \in readdir(rel, disk)}) :
               tasks' = [p \in DOMAIN tasks \cup Range(order) |->
                            IF p = rel THEN [tasks[rel] EXCEPT !.state = "all", !.entries = order]
                            ELSE IF p \in DOMAIN tasks THEN tasks[p]
                            ELSE startedTask(rel, PathBasename(p), disk, pathMappings)]
    /\ UNCHANGED <<disk, pathMappings, pc, nodes, contentFiles, contentDependencyMap,
                   fileIndex, candidates, cand, stack, visited, summary, result,
                   faults, cli, regFiles, regRuns>>

\* await readFile(filePath, "utf8") of inspectFile settles
ReadFile(p) ==
    /\ p \in DOMAIN tasks
    /\ tasks[p].state = "readFile"
    /\ tasks' = [tasks EXCEPT ![p].state =
                    IF <<p, "readFile">> \in faults THEN "rejected" ELSE "stat"]
    /\ UNCHANGED <<disk, pathMappings, pc, nodes, contentFiles, contentDependencyMap,
                   fileIndex, candidates, cand, stack, visited, summary, result,
                   faults, cli, regFiles, regRuns>>

\* await stat(filePath) of inspectFile settles; the file is parsed and its node returned
Stat(p) ==
    /\ p \in DOMAIN tasks
    /\ tasks[p].state = "stat"
    /\ tasks' = [tasks EXCEPT ![p] =
                    IF <<p, "stat">> \in faults THEN [@ EXCEPT !.state = "rejected"]
                    ELSE [@ EXCEPT !.state = "fulfilled",
                                   !.node = << [type |-> "file", name |-> PathBasename(p),
                                                path |-> inspectFile(p, disk[p], pathMappings)[1].path,
                                                children |-> <<>>] >>]]
    /\ UNCHANGED <<disk, pathMappings, pc, nodes, contentFiles, contentDependencyMap,
                   fileIndex, candidates, cand, stack, visited, summary, result,
                   faults, cli, regFiles, regRuns>>

\* The results of the tasks that are not null, in the order of the tasks
nonNull(paths) ==
    Concat([i \in 1..Len(paths) |->
               IF tasks[paths[i]].state = "fulfilled" THEN tasks[paths[i]].node ELSE <<>>])

\* await Promise.all(...) of scanDirectory is fulfilled: the node is assembled
Assemble(rel) ==
    /\ rel \in DOMAIN tasks
    /\ tasks[rel].state = "all"
    /\ allFulfilled(childTasks(rel))
    /\ tasks' = [tasks EXCEPT ![rel] =
                    [@ EXCEPT !.state = "fulfilled",
                              !.node = << [type |-> "directory",
                                           name |-> PathBasename(PathJoin(RootPath, rel)),
                                           path |-> relativePath(PathJoin(RootPath, rel), RootPath),
                                           children |-> sortByName(nonNull(childTasks(rel)))] >>]]
    /\ UNCHANGED <<disk, pathMappings, pc, nodes, contentFiles, contentDependencyMap,
                   fileIndex, candidates, cand, stack, visited, summary, result,
                   faults, cli, regFiles, regRuns>>

\* await Promise.all(...) of scanDirectory is rejected: scanDirectory throws
Reject(rel) ==
    /\ rel \in DOMAIN tasks
    /\ tasks[rel].state = "all"
    /\ someRejected(childTasks(rel))
    /\ tasks' = [tasks EXCEPT ![rel].state = "rejected"]
    /\ UNCHANGED <<disk, pathMappings, pc, nodes, contentFiles, contentDependencyMap,
                   fileIndex, candidates, cand, stack, visited, summary, result,
                   faults, cli, regFiles, regRuns>>

\* The file nodes of the tree a settled scanDirectory holds (an option), each with
\* the imports inspectFile parsed
fileNodesOf(returned, files, mappings) ==
    LET listed(found) ==
            [i \in 1..Len(found) |-> inspectFile(found[i].path, files[found[i].path], mappings)[1]]
    IN  Concat([i \in 1..Len(returned) |-> listed(collectFileNodes(returned[i]))])

\* main resumes after await scanDirectory(...) with the tree
ScanReturned ==
    /\ pc = "scanning"
    /\ awaited(tasks[<<".">>])
    /\ nodes' = fileNodesOf(tasks[<<".">>].node, disk, pathMappings)
    /\ pc' = "scanned"
    /\ UNCHANGED <<disk, pathMappings, contentFiles, contentDependencyMap, fileIndex,
                   candidates, cand, stack, visited, summary, result, envVars>>

\* await scanDirectory(...) throws in main: main().catch logs and sets the exit code
ScanThrew ==
    /\ pc = "scanning"
    /\ tasks[<<".">>].state = "rejected"
    /\ pc' = "failed"
    /\ UNCHANGED <<disk, pathMappings, nodes, contentFiles, contentDependencyMap, fileIndex,
                   candidates, cand, stack, visited, summary, result, envVars>>

f_lib_dist_y == <<"l", "i", "b", "/", "d", "i", "s", "t", "/", "y", ".", "t", "s">>

ScanFiles == {f_lib_x, f_lib_dist_y}

\* The operations of the file system the scan of the files F may call
Operations(F) ==
    {<<d, "readdir">> : d \in {<<".">>} \cup DirectoryEntries([p \in F |-> <<>>])}
        \cup {<<p, op>> : p \in F, op \in {"readFile", "stat"}}

InitScan ==
    /\ pc = "start"
    /\ InitGraph
    /\ tasks = EmptyMap
    /\ cli = [argument |-> "directory", loaded |-> {"config", "package", "tsconfig"}]
    /\ regFiles = NoRegistryFiles
    /\ regRuns = <<>>
    /\ pathMappings = <<>>
    /\ \E F \in {G \cup {f_a, f_b} : G \in SUBSET ScanFiles} :
        /\ disk = [p \in F |-> IF p = f_a THEN <<s_b>> ELSE <<>>]
        /\ faults \in {fs \in SUBSET Operations(F) : Cardinality(fs) <= MaxFaults}

ScanStep ==
    \/ StartScan
    \/ \E rel \in DOMAIN tasks : Listing(rel)
    \/ \E p \in DOMAIN tasks : ReadFile(p)
    \/ \E p \in DOMAIN tasks : Stat(p)
    \/ \E rel \in DOMAIN tasks : Assemble(rel)
    \/ \E rel \in DOMAIN tasks : Reject(rel)
    \/ ScanReturned
    \/ ScanThrew

NextScan == ScanStep \/ Annotate \/ Attach \/ Index \/ SelectFile \/ Visit \/ Return \/ Finish

SpecScan == InitScan /\ [][NextScan]_vars

\* The scheduling of the event loop: a rejected promise rejects the Promise.all that
\* holds it, and a rejected scanDirectory resumes the await of main
SpecScanFair ==
    SpecScan /\ WF_vars(\E rel \in DOMAIN tasks : Reject(rel)) /\ WF_vars(ScanThrew)

\* A file-system operation of the scan has failed
ScanFaulted == \E p \in DOMAIN tasks : tasks[p].state = "rejected"

\* C21: if a directory listing, a file read or a stat fails in any task of the scan,
\* at any depth and whatever the sibling tasks do, scanDirectory ends in an error and
\* returns no tree, and none of the later phases (annotation, content attachment,
\* candidate listing, closure) runs.
C21_ScanFailureIsFatal ==
    /\ [](ScanFaulted =>
             /\ pc \in {"scanning", "failed"}
             /\ tasks[<<".">>].state # "fulfilled"
             /\ InitGraph)
    /\ (ScanFaulted ~> pc = "failed")

\* C21 witness: the run has ended in an error after the read of a file two levels
\* down failed, while a sibling task of the root is still waiting for its file
C21_DeepFailureEndedRun ==
    /\ pc = "failed"
    /\ f_lib_x \in DOMAIN tasks
    /\ tasks[f_lib_x].state = "rejected"
    /\ tasks[f_a].state \in {"readFile", "stat"}

\* The files of the disk that the complete tree holds: outside every skipped
\* directory, with an extension of the allow-set
CompleteTreePaths ==
    {p \in DOMAIN disk : ~InSkipped(p) /\ ToLowerCase(PathExtname(p)) \in AllowedExtensions}

\* C22: in every run the import-count annotation starts only after scanDirectory has
\* returned the complete tree, so that every file node that can be the target of an
\* edge is in the lookup when the first edge is counted; content-dependency
\* attachment starts only after the annotation has finished; candidates and closures
\* are computed only after both.
C22_PhasesRunInOrder ==
    [][/\ (pc' = "annotated" /\ pc # "annotated") =>
              /\ pc = "scanned"
              /\ \A p \in DOMAIN tasks : tasks[p].state = "fulfilled"
              /\ {nodes[i].path : i \in 1..Len(nodes)} = CompleteTreePaths
              /\ CompleteTreePaths \subseteq DOMAIN buildFileLookup(nodes)
       /\ (pc' = "attached" /\ pc # "attached") =>
              /\ pc = "annotated"
              /\ \A i \in 1..Len(nodes) : nodes[i].importCount # NoCount
       /\ (pc' \in {"ready", "closure"} /\ pc \notin {"ready", "closure"}) =>
              /\ pc = "attached"
              /\ \A i \in 1..Len(nodes) : nodes[i].importCount # NoCount]_vars

\* C22 witness: the annotation has counted the edge from a.ts to b.ts in a tree
\* whose scan went two levels down
C22_EdgeCountedAfterDeepScan ==
    /\ pc = "annotated"
    /\ f_lib_x \in DOMAIN tasks
    /\ \E i \in 1..Len(nodes) : nodes[i].path = f_b /\ nodes[i].importCount = 1

\* The entries of the directory rel that have a node: its files of the complete tree
\* and its directories outside the skip-set
KeptEntries(rel) ==
    {entryPath(rel, name) : name \in
        {n \in readdir(rel, disk) :
            IF isDirectory(rel, n, disk) THEN ToLowerCase(n) \notin SkipDirectories
            ELSE entryPath(rel, n) \in CompleteTreePaths}}

\* C23: during a scan the node of a directory is assembled only after the task of
\* every one of its entries (file read and parse, or sub-scan) has completed, under
\* every interleaving of the sibling tasks, and no directory node is returned with the
\* result of a child task missing.
C23_ParentAssembledAfterChildren ==
    [][\A rel \in DOMAIN tasks' :
          (/\ tasks'[rel].kind = "directory"
           /\ Len(tasks'[rel].node) = 1
           /\ rel \in DOMAIN tasks
           /\ Len(tasks[rel].node) = 0) =>
              /\ \A i \in 1..Len(tasks[rel].entries) :
                     /\ tasks[rel].entries[i] \in DOMAIN tasks
                     /\ tasks[tasks[rel].entries[i]].state = "fulfilled"
              /\ Cardinality(Range(tasks[rel].entries)) = Cardinality(readdir(rel, disk))
              /\ {c.path : c \in Range(tasks'[rel].node[1].children)} = KeptEntries(rel)
              /\ \A c \in Range(tasks'[rel].node[1].children) :
                     <<c>> = tasks[c.path].node]_vars

\* C23 witness: the root has been assembled in a run where the sub-scan of lib
\* completed after the file tasks of the root
C23_RootAssembledAfterSubScan ==
    /\ pc = "scanning"
    /\ tasks[<<".">>].state = "fulfilled"
    /\ f_lib_x \in DOMAIN tasks
    /\ Len(tasks[<<".">>].node[1].children) = 3

\* C24: the tree returned by scanDirectory is the same for every order in which the
\* sibling tasks complete and in which readdir lists them: a step of a task writes
\* the promise of that task only (and starts those of its entries), every assembled
\* directory node is the one the disk determines, and its children are in ascending
\* order of name.
C24_TreeIndependentOfCompletionOrder ==
    [][/\ \A p \in DOMAIN tasks : \A q \in DOMAIN tasks :
              (tasks'[p] # tasks[p] /\ tasks'[q] # tasks[q]) => p = q
       /\ \A rel \in DOMAIN tasks :
              (tasks[rel].kind = "directory" /\ Len(tasks[rel].node) = 1) =>
                  /\ tasks[rel].node[1] = scanTree(rel, disk, pathMappings)
                  /\ \A i, j \in 1..Len(tasks[rel].node[1].children) :
                         i < j => LocaleLess(tasks[rel].node[1].children[i].name,
                                             tasks[rel].node[1].children[j].name)]_vars

\* C24 witness: the root has been assembled from a listing that gave lib first, and
\* its three children are attached
C24_AssembledFromUnsortedListing ==
    /\ pc = "scanning"
    /\ tasks[<<".">>].state = "fulfilled"
    /\ tasks[<<".">>].entries[1] = <<"l", "i", "b">>
    /\ Len(tasks[<<".">>].node[1].children) = 3

(***************************************************************************)
(* Imports that designate nothing in the tree: an external package, a       *)
(* specifier no alias matches, a broken relative path, a style sheet.       *)
(***************************************************************************)
s_unmatched == <<"@", "y", "/", "q">>

s_nope == <<".", "/", "n", "o", "p", "e">>

s_b_css == <<".", "/", "b", ".", "c", "s", "s">>

DropFiles == {f_a, f_b}

DropSpecifiers == {LeftPad, s_unmatched, s_nope, s_b_css, s_b}

InitDrop ==
    /\ InitRun
    /\ pathMappings = GraphMappings
    /\ \E F \in SUBSET DropFiles :
        /\ Cardinality(F) \in 1..MaxFiles
        /\ disk \in Disks(F, DropSpecifiers, MaxImports)

SpecDrop == InitDrop /\ [][Next]_vars

\* The root-relative paths an import entry of the file at importer names: the
\* specifier resolved against the importer's directory when it is relative, and the
\* paths its alias resolves to
NamedPaths(importer, entry) ==
    (IF StartsWith(entry.moduleSpecifier, <<".", "/">>)
        \/ StartsWith(entry.moduleSpecifier, <<".", ".", "/">>)
     THEN {PathRelative(RootPath, PathResolve(PathDirname(PathJoin(RootPath, importer)),
                                              entry.moduleSpecifier))}
     ELSE {})
        \cup {PathRelative(RootPath, PathResolve(PackageRoot, entry.resolvedPaths[t])) :
                 t \in 1..Len(entry.resolvedPaths)}

\* The path named designates the file at target: it is the file's path, or the path
\* without its extension, or the directory of an index file
DesignatesFile(named, target) ==
    \/ target = named
    \/ \E ext \in AllowedExtensions :
          \/ target = named \o ext
          \/ target = named \o <<"/", "i", "n", "d", "e", "x">> \o ext

\* Some import entry of the tree designates the file at target
Designated(target) ==
    \E k \in 1..Len(nodes) : \E j \in 1..Len(nodes[k].imports) :
        \E named \in NamedPaths(nodes[k].path, nodes[k].imports[j]) :
            DesignatesFile(named, target)

\* C25: an import whose specifier designates nothing in the scanned tree (an
\* external package, a specifier matching no alias, a broken relative path, a file
\* outside the allow-set such as ./b.css) increments the importCount of no file and
\* adds no file to any closure: a file that no import designates has importCount 0
\* and is in no closure but its own.
C25_UnresolvableImportIsDropped ==
    /\ Annotated =>
          \A i \in 1..Len(nodes) : nodes[i].importCount > 0 => Designated(nodes[i].path)
    /\ Summarized =>
          \A i \in 1..Len(nodes) :
              (/\ nodes[i].path # result[1].node
               /\ displayPath(nodes[i].path) \in Range(result[1].fileDependencies)) =>
                  Designated(nodes[i].path)

\* C25 witness: a.ts imports ./b.css beside b.ts and the annotation pass has run
C25_StyleSheetBesideModule ==
    /\ Annotated
    /\ f_a \in DOMAIN disk
    /\ f_b \in DOMAIN disk
    /\ disk[f_a] = <<s_b_css>>
    /\ disk[f_b] = <<>>

(***************************************************************************)
(* The command line: parseCliArgs, resolveTargetPath and the loading of the *)
(* configuration, before the scan.  An argument is "-v", "--verbose", or a  *)
(* path named by what it is on disk: "dir" a directory, "file" a file,      *)
(* "missing" nothing, "script" a file spelled like ./cli.ts.                *)
(***************************************************************************)
MaxArgs == 2

Flags == {"-v", "--verbose"}

PathTokens == {"dir", "file", "missing", "script"}

\* The first lines of parseCliArgs: argv.slice(2) with a leading script path dropped
withoutScript(args) ==
    IF Len(args) > 0 /\ args[1] = "script" THEN Tail(args) ELSE args

\* The loop of parseCliArgs over the arguments: [error, targetPath (option), verbose]
RECURSIVE parseLoop(_, _)
parseLoop(args, acc) ==
    IF Len(args) = 0 \/ acc.error THEN acc
    ELSE IF Head(args) \in Flags THEN parseLoop(Tail(args), [acc EXCEPT !.verbose = TRUE])
    ELSE IF Len(acc.targetPath) = 0
         THEN parseLoop(Tail(args), [acc EXCEPT !.targetPath = <<Head(args)>>])
    ELSE [acc EXCEPT !.error = TRUE]

\* parseCliArgs(process.argv): throws on a second path and on no path
parseCliArgs(argv) ==
    LET checked(parsed) ==
            IF Len(parsed.targetPath) = 0 THEN [parsed EXCEPT !.error = TRUE] ELSE parsed
    IN  checked(parseLoop(withoutScript(argv),
                          [error |-> FALSE, targetPath |-> <<>>, verbose |-> FALSE]))

\* A resolveTargetPath that takes every path that exists
statSucceeds(token) == token \in {"dir", "file", "script"}

\* resolveTargetPath: stat(target) succeeds and stats.isDirectory()
statIsDirectory(token) == token = "dir"

\* const { targetPath, verbose } = parseCliArgs(process.argv)
ParseArgs ==
    /\ pc = "cli"
    /\ \E parsed \in {parseCliArgs(cli.argv)} :
          IF parsed.error
          THEN /\ pc' = "failed"
               /\ UNCHANGED cli
          ELSE /\ pc' = "resolve"
               /\ cli' = [cli EXCEPT !.targetPath = parsed.targetPath,
                                     !.verbose = parsed.verbose]
    /\ UNCHANGED <<disk, pathMappings, nodes, contentFiles, contentDependencyMap, fileIndex,
                   candidates, cand, stack, visited, summary, result,
                   tasks, faults, regFiles, regRuns>>

\* const target = await resolveTargetPath(targetPath)
ResolveTarget ==
    /\ pc = "resolve"
    /\ pc' = IF statIsDirectory(cli.targetPath[1]) THEN "load" ELSE "failed"
    /\ UNCHANGED <<disk, pathMappings, nodes, contentFiles, contentDependencyMap, fileIndex,
                   candidates, cand, stack, visited, summary, result, envVars>>

\* The awaits of main between resolveTargetPath and the scan, in their order:
\* loadConfig, findNearestPackageJson, loadTsconfigInfo
LoadOrder == <<"config", "package", "tsconfig">>

\* One of the three loads of main returns
Load ==
    /\ pc = "load"
    /\ cli' = [cli EXCEPT !.loaded = @ \cup {LoadOrder[Cardinality(@) + 1]}]
    /\ pc' = IF Cardinality(cli.loaded) + 1 = Len(LoadOrder) THEN "start" ELSE "load"
    /\ UNCHANGED <<disk, pathMappings, nodes, contentFiles, contentDependencyMap, fileIndex,
                   candidates, cand, stack, visited, summary, result,
                   tasks, faults, regFiles, regRuns>>

CliFiles == {f_a, f_b}

CliSpecifiers == {s_b, LeftPad}

InitCli ==
    /\ pc = "cli"
    /\ InitGraph
    /\ tasks = EmptyMap
    /\ faults = {}
    /\ regFiles = NoRegistryFiles
    /\ regRuns = <<>>
    /\ pathMappings = <<>>
    /\ \E argv \in SeqsUpTo(Flags \cup PathTokens, MaxArgs) :
          cli = [argv |-> argv, targetPath |-> <<>>, verbose |-> FALSE, loaded |-> {}]
    /\ \E F \in SUBSET CliFiles :
        /\ F # {}
        /\ disk \in Disks(F, CliSpecifiers, 1)

NextCli == ParseArgs \/ ResolveTarget \/ Load \/ Next

SpecCli == InitCli /\ [][NextCli]_vars

\* The path argument supplied: the first argument that is not a flag, a leading
\* script path aside
SuppliedPath(argv) ==
    LET first(paths) == IF Len(paths) = 0 THEN "none" ELSE paths[1]
    IN  first(SelectSeq(IF Len(argv) > 0 /\ argv[1] = "script" THEN Tail(argv) ELSE argv,
                        LAMBDA a : a \notin Flags))

\* C26: when no path argument is supplied, or the supplied path does not exist or is
\* not a directory, the run ends with an error before any configuration is loaded
\* and before any directory is scanned; no tree, candidate list or output file is
\* produced.
C26_BadPathAbortsBeforeScan ==
    [][SuppliedPath(cli.argv) # "dir" =>
          /\ pc \in {"cli", "resolve", "failed"}
          /\ pc' \in {"resolve", "failed"}
          /\ pc = "resolve" => pc' = "failed"
          /\ (pc = "cli" /\ SuppliedPath(cli.argv) = "none") => pc' = "failed"
          /\ cli'.loaded = {}
          /\ InitGraph'
          /\ tasks' = EmptyMap
          /\ regFiles' = NoRegistryFiles]_vars

\* C26 witness: a run given the path of a file has ended in the error of
\* resolveTargetPath
C26_FileArgumentRejected ==
    /\ pc = "failed"
    /\ cli.targetPath = <<"file">>

(***************************************************************************)
(* The exact-path keys of the file index.                                   *)
(***************************************************************************)
\* C27 as stated: looking up the exact path of a file in the index built by
\* buildFileIndex returns that file; no extension-stripped or index-stripped key of
\* another file overwrites an exact-path key.
C27_ExactPathFindsOwnFile ==
    Indexed =>
        \A i \in 1..Len(nodes) :
            findFileNodeByRelativePath(fileIndex, nodes[i].path) = <<i>>

\* C27 witness: b.ts and its sibling b.ts.js are both in the index
C27_SiblingNamedAfterFileIndexed ==
    /\ Indexed
    /\ {f_b, f_b_js} \subseteq {nodes[i].path : i \in 1..Len(nodes)}
    /\ f_b \in DOMAIN fileIndex

(***************************************************************************)
(* Coverage of the tree by the closures of the candidates.                  *)
(***************************************************************************)
\* summarizeComponent(candidatePath, ...).fileDependencies as a set; empty when the
\* lookup of the candidate finds no node
closureFiles(candidatePath) ==
    LET of(found) ==
            IF Len(found) = 0 THEN {}
            ELSE Range(summaryResult(candidatePath, nodes[found[1]],
                           buildComponentSummary(nodes[found[1]], EmptySummary, {}).summary)
                       .fileDependencies)
    IN  of(findFileNodeByRelativePath(fileIndex, candidatePath))

\* C28 as stated: after scan and annotation every file of the tree is a component
\* candidate or is among the fileDependencies of the closure of at least one
\* component candidate, on every import graph, cycles included.
C28_EveryFileCoveredByCandidate ==
    Indexed =>
        \A i \in 1..Len(nodes) :
            \/ nodes[i].path \in Range(candidates)
            \/ \E c \in Range(candidates) : displayPath(nodes[i].path) \in closureFiles(c)

\* C28 witness: two files import each other and the candidate list is computed
C28_MutualImportIndexed ==
    /\ Indexed
    /\ MutualImports(ResolvedEdges(nodes)) # {}
    /\ Len(nodes) = 2
    /\ candidates = <<>>

(***************************************************************************)
(* Display paths of files below a directory named src.                      *)
(***************************************************************************)
f_p_src_x == <<"p", "/", "s", "r", "c", "/", "x", ".", "t", "s">>

f_q_src_x == <<"q", "/", "s", "r", "c", "/", "x", ".", "t", "s">>

s_p_src_x == <<".", "/", "p", "/", "s", "r", "c", "/", "x">>

s_q_src_x == <<".", "/", "q", "/", "s", "r", "c", "/", "x">>

SrcFiles == {f_a, f_b, f_p_src_x, f_q_src_x}

SrcSpecifiers == {s_b, s_p_src_x, s_q_src_x}

InitSrc ==
    /\ InitRun
    /\ pathMappings = <<>>
    /\ \E F \in SUBSET SrcFiles :
        /\ Cardinality(F) \in 1..MaxFiles
        /\ disk \in Disks(F, SrcSpecifiers, MaxImports)

SpecSrc == InitSrc /\ [][Next]_vars

\* The files the closure held in result has reached, its own file included
ReachedByResult == ReachFrom(ResolvedEdges(nodes), {RootOf(result[1])})

\* C29 as stated: within one closure distinct files have distinct display paths,
\* also below directories named src, so fileDependencies and files have as many
\* entries as there are distinct files reached, the candidate included.
C29_DistinctFilesDistinctEntries ==
    Summarized =>
        /\ \A i, k \in ReachedByResult :
              i # k => displayPath(nodes[i].path) # displayPath(nodes[k].path)
        /\ Len(result[1].fileDependencies) = Cardinality(ReachedByResult)
        /\ Len(result[1].files) = Cardinality(ReachedByResult)

\* C29 witness: the closure of a.ts has reached p/src/x.ts and q/src/x.ts
C29_TwoSrcDirectoriesReached ==
    /\ Summarized
    /\ result[1].candidatePath = f_a
    /\ {f_p_src_x, f_q_src_x} \subseteq {nodes[i].path : i \in ReachedByResult}

(***************************************************************************)
(* createRegistryInfo (scanner.ts), started by runComponentExplorer without *)
(* being awaited: one step per file operation, so that calls overlap and a  *)
(* kill of the process falls between any two operations.                    *)
(***************************************************************************)
MaxRuns == 2

\* process.cwd(), against which formatFileDependencyPath resolves "./"
Cwd == PackageRoot

\* buildItemName: /\.(jsx?|tsx?)$/i removed, then a trailing /index, then the part
\* after the last slash
buildItemName(item) ==
    LET afterSlash(withoutIndex) == SliceFrom(withoutIndex, LastIndexOf(withoutIndex, "/") + 1)
        ext(i) == IF i = -1 THEN <<>> ELSE ToLowerCase(SliceFrom(item, i))
        withoutExtension(i) ==
            IF ext(i) \in {<<".", "j", "s">>, <<".", "j", "s", "x">>, <<".", "t", "s">>, <<".", "t", "s", "x">>} THEN Slice(item, 0, i) ELSE item
    IN  afterSlash(stripIndex(withoutExtension(LastIndexOf(item, "."))))

\* formatItemPath
formatItemPath(item, componentPath) ==
    IF ~Includes(item, <<"/">>) THEN <<".", "/">> \o componentPath
    ELSE <<".", "/">> \o Slice(item, 0, LastIndexOf(item, "/"))

\* baseInfo of createRegistryInfo(targetPath, items)
baseInfo(items) ==
    LET entry(item, formattedName) ==
            [name |-> formattedName,
             title |-> formattedName,
             description |-> <<>>,
             type |-> <<"r", "e", "g", "i", "s", "t", "r", "y", ":", "c", "o", "m", "p", "o", "n", "e", "n", "t">>,
             path |-> formatItemPath(item, formatFileDependencyPath(RootPath, Cwd)),
             categories |-> <<formattedName>>]
    IN  [name |-> <<"h", "o", "o", "g", "i", "n", "-">> \o PathBasename(RootPath),
         homepage |-> <<"h", "t", "t", "p", "s", ":", "/", "/", "h", "o", "o", "g", "i", "n", ".", "b", "e">>,
         author |-> <<"A", "l", "a", "i", "n", " ", "P", "a", "u", "m", "e", "n">>,
         categorie |-> <<PathBasename(RootPath)>>,
         items |-> [i \in 1..Len(items) |-> entry(items[i], buildItemName(items[i]))]]

\* mergeRegistryItems: previousMap.get(item.name) is the last previous item of that name
mergeRegistryItems(baseItems, previousItems) ==
    LET named(name) == {k \in 1..Len(previousItems) : previousItems[k].name = name}
        merged(item, ks) ==
            IF ks = {} THEN item
            ELSE [item EXCEPT !.title = previousItems[Max(ks)].title,
                              !.description = previousItems[Max(ks)].description,
                              !.type = previousItems[Max(ks)].type,
                              !.path = previousItems[Max(ks)].path,
                              !.categories = previousItems[Max(ks)].categories]
    IN  [i \in 1..Len(baseItems) |-> merged(baseItems[i], named(baseItems[i].name))]

\* mergeRegistryInfo(base, previous); previous is an option
mergeRegistryInfo(base, previous) ==
    IF Len(previous) = 0 THEN base
    ELSE [base EXCEPT !.name = previous[1].name,
                      !.homepage = previous[1].homepage,
                      !.author = previous[1].author,
                      !.categorie = previous[1].categorie,
                      !.items = mergeRegistryItems(base.items, previous[1].items)]

\* The calls that have neither returned, nor thrown, nor been killed
Active == {r \in DOMAIN regRuns : regRuns[r].at \notin {"done", "rejected", "interrupted"}}

\* case "createRegistryInfo": createRegistryInfo(rootPath, sortedCandidates); break;
\* before is history: the latest content registry.info had when the call started
StartRun ==
    /\ pc = "ready"
    /\ Len(candidates) > 0
    /\ Len(regRuns) < MaxRuns
    /\ regRuns' = Append(regRuns, [at |-> "access",
                                   items |-> SortStrings(Range(candidates)),
                                   previousInfo |-> <<>>,
                                   before |-> regFiles.last])
    /\ UNCHANGED <<disk, pathMappings, pc, nodes, contentFiles, contentDependencyMap, fileIndex,
                   candidates, cand, stack, visited, summary, result,
                   tasks, faults, cli, regFiles>>

\* The next await of call r: fileExists, unlink, rename, loadRegistryInfo, writeFile
RunStep(r) ==
    LET run == regRuns[r]
        goes(at) == regRuns' = [regRuns EXCEPT ![r].at = at]
        exists(file) == Len(file) = 1
    IN  /\ r \in Active
        /\ CASE run.at = "access" ->
                  /\ goes(IF exists(regFiles.info) THEN "accessOld" ELSE "write")
                  /\ UNCHANGED regFiles
             [] run.at = "accessOld" ->
                  /\ goes(IF exists(regFiles.old) THEN "unlink" ELSE "rename")
                  /\ UNCHANGED regFiles
             [] run.at = "unlink" ->
                  /\ goes(IF exists(regFiles.old) THEN "rename" ELSE "rejected")
                  /\ regFiles' = [regFiles EXCEPT !.old = <<>>]
             [] run.at = "rename" ->
                  /\ goes(IF exists(regFiles.info) THEN "load" ELSE "rejected")
                  /\ regFiles' = IF exists(regFiles.info)
                                 THEN [regFiles EXCEPT !.old = regFiles.info, !.info = <<>>]
                                 ELSE regFiles
             [] run.at = "load" ->
                  /\ regRuns' = [regRuns EXCEPT ![r].at = "write",
                                                ![r].previousInfo = regFiles.old]
                  /\ UNCHANGED regFiles
             [] run.at = "write" ->
                  /\ goes("accessBackup")
                  /\ \E mergedInfo \in {mergeRegistryInfo(baseInfo(run.items), run.previousInfo)} :
                        regFiles' = [regFiles EXCEPT !.info = <<mergedInfo>>,
                                                     !.last = <<mergedInfo>>]
             [] run.at = "accessBackup" ->
                  /\ goes(IF exists(regFiles.old) THEN "unlinkBackup" ELSE "done")
                  /\ UNCHANGED regFiles
             [] run.at = "unlinkBackup" ->
                  /\ goes(IF exists(regFiles.old) THEN "done" ELSE "rejected")
                  /\ regFiles' = [regFiles EXCEPT !.old = <<>>]
        /\ UNCHANGED <<disk, pathMappings, pc, nodes, contentFiles, contentDependencyMap,
                       fileIndex, candidates, cand, stack, visited, summary, result,
                       tasks, faults, cli>>

Step == \E r \in DOMAIN regRuns : RunStep(r)

\* The process is killed: every call in progress stops where it is
Interrupt ==
    /\ Active # {}
    /\ regRuns' = [r \in DOMAIN regRuns |->
                      IF r \in Active THEN [regRuns[r] EXCEPT !.at = "interrupted"]
                      ELSE regRuns[r]]
    /\ UNCHANGED <<disk, pathMappings, pc, nodes, contentFiles, contentDependencyMap, fileIndex,
                   candidates, cand, stack, visited, summary, result,
                   tasks, faults, cli, regFiles>>

\* The metadata a user writes by hand
edited(info, k) ==
    IF k = 0
    THEN [info EXCEPT !.name = <<"m", "i", "n", "e">>, !.homepage = <<"h", "t", "t", "p", "s", ":", "/", "/", "x", ".", "y">>, !.author = <<"m", "e">>,
                      !.categorie = <<<<"u", "i">>>>]
    ELSE [info EXCEPT !.items[k] = [@ EXCEPT !.title = <<"M", "y", " ", "t", "i", "t", "l", "e">>,
                                             !.description = <<"t", "e", "x", "t">>,
                                             !.type = <<"r", "e", "g", "i", "s", "t", "r", "y", ":", "u", "i">>,
                                             !.path = <<".", "/", "u", "i">>,
                                             !.categories = <<<<"u", "i">>>>]]

\* The user edits registry.info between two runs: the top-level fields (k = 0) or
\* the metadata of item k
HandEdit ==
    /\ Active = {}
    /\ Len(regFiles.info) = 1
    /\ \E k \in 0..Len(regFiles.info[1].items) :
          /\ edited(regFiles.info[1], k) # regFiles.info[1]
          /\ regFiles' = [regFiles EXCEPT !.info = <<edited(regFiles.info[1], k)>>,
                                          !.last = <<edited(regFiles.info[1], k)>>]
    /\ UNCHANGED <<disk, pathMappings, pc, nodes, contentFiles, contentDependencyMap, fileIndex,
                   candidates, cand, stack, visited, summary, result,
                   tasks, faults, cli, regRuns>>

InfoFiles == {f_a, f_b, f_lib}

InfoSpecifiers == {s_b}

\* The target directory holds no registry.info, or the one an earlier run wrote for
\* the candidates of the tree
InitInfo ==
    /\ tasks = EmptyMap
    /\ faults = {}
    /\ cli = [argument |-> "directory", loaded |-> {"config", "package", "tsconfig"}]
    /\ regRuns = <<>>
    /\ pc = "start"
    /\ InitGraph
    /\ pathMappings = <<>>
    /\ \E F \in SUBSET InfoFiles :
        /\ F # {}
        /\ disk \in Disks(F, InfoSpecifiers, 1)
    /\ \E written \in {<<>>, <<baseInfo(SortStrings(Range(getComponentCandidates(
                               annotateImportCounts(scanDirectory(disk, pathMappings))))))>>} :
          regFiles = [info |-> written, old |-> <<>>, last |-> written]

NextInfo == Scan \/ Annotate \/ Attach \/ Index \/ StartRun \/ Step \/ Interrupt \/ HandEdit

SpecInfo == InitInfo /\ [][NextInfo]_vars

\* The file now keeps what before held: the top-level fields, and the metadata of
\* every item of before whose name is among the names of the candidates
Keeps(now, before, items) ==
    /\ now.name = before.name
    /\ now.homepage = before.homepage
    /\ now.author = before.author
    /\ now.categorie = before.categorie
    /\ \A k \in 1..Len(before.items) :
          before.items[k].name \in {buildItemName(items[i]) : i \in 1..Len(items)} =>
              \E j \in 1..Len(now.items) :
                  /\ now.items[j].name = before.items[k].name
                  /\ now.items[j].title = before.items[k].title
                  /\ now.items[j].description = before.items[k].description
                  /\ now.items[j].type = before.items[k].type
                  /\ now.items[j].path = before.items[k].path
                  /\ now.items[j].categories = before.items[k].categories

\* C30 as stated: for any sequence of createRegistryInfo runs, interrupted between
\* any two file operations or overlapping, when a run completes registry.info exists
\* and keeps the top-level fields and, for every item named in the candidate list,
\* the title, description, type, path and categories of the last registry.info that
\* existed before the run.
C30_RegenerationKeepsMetadata ==
    [][\A r \in DOMAIN regRuns :
          (regRuns[r].at # "done" /\ regRuns'[r].at = "done" /\ Len(regRuns[r].before) = 1) =>
              /\ Len(regFiles'.info) = 1
              /\ Keeps(regFiles'.info[1], regRuns[r].before[1], regRuns[r].items)]_vars

\* C30 witness: a run was killed after it renamed a hand-edited registry.info, and
\* the run after it has completed
C30_RunCompletedAfterInterruptedRun ==
    /\ Len(regRuns) = 2
    /\ regRuns[1].at = "interrupted"
    /\ regRuns[2].at = "done"
    /\ Len(regRuns[2].before) = 1
    /\ regRuns[2].before[1].author = <<"m", "e">>

====
